---------------------------- MODULE Spec2Model ----------------------------
(***************************************************************************)
(* A model of pandas/tseries/period.py: the scalar Period, the PeriodIndex *)
(* array and range generation.                                             *)
(*                                                                         *)
(* Python values are tagged records: PyNone, PyInt(n), PyStr(s), a float,  *)
(* a datetime, and objects ([t |-> "Period", ...], [t |-> "PeriodIndex",   *)
(* ...]).  A freq descriptor is a string ("None" is the absent freq); a    *)
(* base code of pandas.tseries.frequencies.FreqGroup is the string of its  *)
(* name ("FR_ANN", "FR_QTR", "FR_MTH").  A call returns [err, ret]: err is *)
(* "none" or the error kind of the raise statement that ended the call.    *)
(***************************************************************************)
EXTENDS Integers, Sequences, FiniteSets, TLC

VARIABLES heap, last

vars == <<heap, last>>

(***************************************************************************)
(* Bounds of the model.                                                    *)
(***************************************************************************)
MaxObjects == 3

MaxPeriods == 2

MaxLen == 2

MaxOrd == 1

MaxShift == 1

MaxRange == 2

(***************************************************************************)
(* Python values.                                                          *)
(***************************************************************************)
PyNone == [t |-> "None"]

PyInt(n) == [t |-> "int", iv |-> n]

PyStr(s) == [t |-> "str", sv |-> s]

PyFloat(x) == [t |-> "float", fv |-> x]

PyDatetime(y, m) == [t |-> "datetime", year |-> y, month |-> m]

PyDate(y, m) == [t |-> "date", year |-> y, month |-> m]

PyRef(i) == [t |-> "ref", id |-> i]

Raise(kind) == [err |-> kind, ret |-> PyNone]

Return(v) == [err |-> "none", ret |-> v]

\* com.is_integer
is_integer(x) == x.t = "int"

\* isinstance(x, basestring)
is_string(x) == x.t = "str"

\* str.upper on the strings the model passes around
upper(s) ==
    CASE s = "s" -> "S"
      [] s = "e" -> "E"
      [] s = "start" -> "START"
      [] s = "Start" -> "START"
      [] s = "finish" -> "FINISH"
      [] s = "begin" -> "BEGIN"
      [] s = "end" -> "END"
      [] s = "End" -> "END"
      [] s = "middle" -> "MIDDLE"
      [] s = "2000q2" -> "2000Q2"
      [] s = "foo" -> "FOO"
      [] OTHER -> s

\* str(int) on the integers the model passes as a value
str(n) ==
    CASE n = 2000 -> "2000"
      [] n = 2001 -> "2001"
      [] OTHER -> "FOO"

(***************************************************************************)
(* pandas.tseries.frequencies: descriptors, base codes, canonical strings. *)
(***************************************************************************)
\* get_freq_code: a descriptor's (base, mult); a base code is its own base
gfc(freq) ==
    CASE freq \in {"A", "A-DEC", "FR_ANN"} -> <<"FR_ANN", 1>>
      [] freq \in {"Q", "Q-DEC", "FR_QTR"} -> <<"FR_QTR", 1>>
      [] freq \in {"M", "FR_MTH"} -> <<"FR_MTH", 1>>
      [] freq = "2M" -> <<"FR_MTH", 2>>
      [] freq = "3A" -> <<"FR_ANN", 3>>

\* _get_freq_str: the canonical string of a base code
get_freq_str(base) ==
    CASE base = "FR_ANN" -> "A-DEC"
      [] base = "FR_QTR" -> "Q-DEC"
      [] base = "FR_MTH" -> "M"

\* get_standard_freq: None stays None; otherwise the canonical string, the
\* multiplier kept
get_standard_freq(freq) ==
    IF freq = "None" THEN "None"
    ELSE IF gfc(freq)[2] = 1 THEN get_freq_str(gfc(freq)[1])
    ELSE freq

\* _month_numbers[_get_rule_month(freq)] + 1: the fiscal rule month, the
\* month of the anchor of a descriptor, DEC for every descriptor without an
\* anchor
rule_month_number(freq) ==
    CASE freq = "Q-JAN" -> 1
      [] freq = "Q-FEB" -> 2
      [] freq = "Q-MAR" -> 3
      [] freq = "Q-APR" -> 4
      [] freq = "Q-MAY" -> 5
      [] freq = "Q-JUN" -> 6
      [] freq = "Q-JUL" -> 7
      [] freq = "Q-AUG" -> 8
      [] freq = "Q-SEP" -> 9
      [] freq = "Q-OCT" -> 10
      [] freq = "Q-NOV" -> 11
      [] OTHER -> 12

(***************************************************************************)
(* pandas._period, the calendar kernel, for the annual, quarterly and      *)
(* monthly bases.  Ordinal 1 is the period holding Jan 1, 0001.            *)
(***************************************************************************)
period_ordinal(y, m, base) ==
    CASE base = "FR_ANN" -> y
      [] base = "FR_QTR" -> (y - 1) * 4 + ((m - 1) \div 3) + 1
      [] base = "FR_MTH" -> (y - 1) * 12 + m

\* months a period spans: <<first month ordinal, last month ordinal>>
period_months(ord, base) ==
    CASE base = "FR_ANN" -> <<(ord - 1) * 12 + 1, ord * 12>>
      [] base = "FR_QTR" -> <<(ord - 1) * 3 + 1, ord * 3>>
      [] base = "FR_MTH" -> <<ord, ord>>

\* the period of base `base` holding month ordinal mo
period_of_month(mo, base) ==
    CASE base = "FR_ANN" -> ((mo - 1) \div 12) + 1
      [] base = "FR_QTR" -> ((mo - 1) \div 3) + 1
      [] base = "FR_MTH" -> mo

\* plib.period_asfreq(ordinal, base1, base2, end)
period_asfreq(ord, base1, base2, end) ==
    IF base1 = base2 THEN ord
    ELSE period_of_month(period_months(ord, base1)[IF end THEN 2 ELSE 1], base2)

(***************************************************************************)
(* pandas.tseries.tools.parse_time_string on the strings of the model.     *)
(***************************************************************************)
parse_time_string(s) ==
    CASE s = "2000" -> [ok |-> TRUE, year |-> 2000, month |-> 1, reso |-> "year"]
      [] s = "2001" -> [ok |-> TRUE, year |-> 2001, month |-> 1, reso |-> "year"]
      [] s = "2005" -> [ok |-> TRUE, year |-> 2005, month |-> 1, reso |-> "year"]
      [] s = "2000-03" -> [ok |-> TRUE, year |-> 2000, month |-> 3, reso |-> "month"]
      [] s = "2000Q2" -> [ok |-> TRUE, year |-> 2000, month |-> 4, reso |-> "quarter"]
      [] s = "2000-03-05" -> [ok |-> TRUE, year |-> 2000, month |-> 3, reso |-> "day"]
      [] OTHER -> [ok |-> FALSE]

(***************************************************************************)
(* Period (scalar).                                                        *)
(***************************************************************************)
validate_end_alias_case_sensitive(how) ==
    LET h == CASE how \in {"S", "START", "BEGIN"} -> "S"
               [] how \in {"E", "FINISH", "END"} -> "E"
               [] OTHER -> "None"
    IN  IF h \notin {"S", "E"} THEN Raise("InvalidAlias") ELSE Return(h)

\* _validate_end_alias
validate_end_alias(how) ==
    LET u == upper(how)
        h == CASE u \in {"S", "START", "BEGIN"} -> "S"
               [] u \in {"E", "FINISH", "END"} -> "E"
               [] OTHER -> "None"
    IN  IF h \notin {"S", "E"} THEN Raise("InvalidAlias") ELSE Return(h)

\* a mapping that leaves the year as it is
quarter_to_myear_keeping_year(year, quarter, freq) ==
    IF quarter.iv <= 0 \/ quarter.iv > 4 THEN Raise("InvalidQuarter")
    ELSE IF year = PyNone THEN Raise("TypeError")
    ELSE Return(<<year,
                  PyInt(((rule_month_number(freq) + (quarter.iv - 1) * 3) % 12) + 1)>>)

\* _quarter_to_myear, called with a quarter that is not None
quarter_to_myear(year, quarter, freq) ==
    IF quarter.iv <= 0 \/ quarter.iv > 4 THEN Raise("InvalidQuarter")
    ELSE LET mnum == rule_month_number(freq)
             month == ((mnum + (quarter.iv - 1) * 3) % 12) + 1
         IN  IF year = PyNone THEN Raise("TypeError")
             ELSE Return(<<IF month > mnum THEN PyInt(year.iv - 1) ELSE year,
                           PyInt(month)>>)

\* _ordinal_from_fields (day, hour, minute and second do not reach the
\* ordinal at the annual, quarterly and monthly bases)
ordinal_from_fields(year, month, quarter, freq) ==
    LET base == gfc(freq)[1]
        mult == gfc(freq)[2]
    IN  IF mult # 1 THEN Raise("UnsupportedMultiplier")
        ELSE LET ym == IF quarter # PyNone
                       THEN quarter_to_myear(year, quarter, freq)
                       ELSE Return(<<year, month>>)
             IN  IF ym.err # "none" THEN ym
                 ELSE IF ym.ret[1] = PyNone THEN Raise("TypeError")
                 ELSE Return(period_ordinal(ym.ret[1].iv, ym.ret[2].iv, base))

\* _get_date_and_freq: [err, dt, freq]
get_date_and_freq(value, freq) ==
    LET p == parse_time_string(upper(value))
    IN  IF ~p.ok THEN [err |-> "ParseError", dt |-> PyNone, freq |-> freq]
        ELSE [err |-> "none",
              dt |-> PyDatetime(p.year, p.month),
              freq |-> IF freq # "None" THEN freq
                       ELSE CASE p.reso = "year" -> "A"
                              [] p.reso = "quarter" -> "Q"
                              [] p.reso = "month" -> "M"]

\* the tail of Period.__init__: the multiplier check, the ordinal of dt when
\* no ordinal was set yet, and the canonical freq string
Period_finish_storing_raw_freq(ordinal, dt, freq) ==
    LET base == gfc(freq)[1]
        mult == gfc(freq)[2]
    IN  IF mult # 1 THEN Raise("UnsupportedMultiplier")
        ELSE Return([t |-> "Period",
                     ordinal |-> IF ordinal = PyNone
                                 THEN period_ordinal(dt.year, dt.month, base)
                                 ELSE ordinal.iv,
                     freq |-> freq])

Period_finish_skipping_mult_check(ordinal, dt, freq) ==
    LET base == gfc(freq)[1]
    IN  Return([t |-> "Period",
                ordinal |-> IF ordinal = PyNone
                            THEN period_ordinal(dt.year, dt.month, base)
                            ELSE ordinal.iv,
                freq |-> get_freq_str(base)])

Period_finish(ordinal, dt, freq) ==
    LET base == gfc(freq)[1]
        mult == gfc(freq)[2]
    IN  IF mult # 1 THEN Raise("UnsupportedMultiplier")
        ELSE Return([t |-> "Period",
                     ordinal |-> IF ordinal = PyNone
                                 THEN period_ordinal(dt.year, dt.month, base)
                                 ELSE ordinal.iv,
                     freq |-> get_freq_str(base)])

RECURSIVE Period__init__(_, _, _, _, _, _)
RECURSIVE Period_asfreq(_, _, _)

\* Period.__init__(value, freq, ordinal, year, month, quarter)
Period__init__(value, freq, ordinal, year, month, quarter) ==
    IF ordinal # PyNone /\ value # PyNone THEN Raise("ValueConflict")
    ELSE IF ordinal # PyNone THEN
        IF ~is_integer(ordinal) THEN Raise("InvalidOrdinal")
        ELSE IF freq = "None" THEN Raise("MissingFrequency")
        ELSE Period_finish(ordinal, PyNone, freq)
    ELSE IF value = PyNone THEN
        IF freq = "None" THEN Raise("MissingFrequency")
        ELSE LET r == ordinal_from_fields(year, month, quarter, freq)
             IN  IF r.err # "none" THEN r
                 ELSE Period_finish(PyInt(r.ret), PyNone, freq)
    ELSE IF value.t = "Period" THEN
        IF freq = "None" \/ gfc(freq) = gfc(value.freq)
        THEN Period_finish(PyInt(value.ordinal), PyNone, value.freq)
        ELSE LET converted == Period_asfreq(value, freq, "E")
             IN  IF converted.err # "none" THEN converted
                 ELSE Period_finish(PyInt(converted.ret.ordinal), PyNone, freq)
    ELSE IF is_string(value) \/ is_integer(value) THEN
        LET s == IF is_integer(value) THEN str(value.iv) ELSE value.sv
            r == get_date_and_freq(s, freq)
        IN  IF r.err # "none" THEN Raise(r.err)
            ELSE Period_finish(PyNone, r.dt, r.freq)
    ELSE IF value.t \in {"datetime", "date"} THEN
        IF freq = "None" THEN Raise("MissingFrequency")
        ELSE Period_finish(PyNone, PyDatetime(value.year, value.month), freq)
    ELSE Raise("InvalidValue")

\* Period(ordinal=k, freq=f)
PeriodOrd(k, f) == Period__init__(PyNone, f, PyInt(k), PyNone, PyInt(1), PyNone)

\* Period(value, freq)
PeriodVal(v, f) == Period__init__(v, f, PyNone, PyNone, PyInt(1), PyNone)

\* Period.asfreq(freq, how)
Period_asfreq(self, freq, how) ==
    LET h == validate_end_alias(how)
    IN  IF h.err # "none" THEN h
        ELSE LET base1 == gfc(self.freq)[1]
                 base2 == gfc(freq)[1]
                 mult2 == gfc(freq)[2]
             IN  IF mult2 # 1 THEN Raise("UnsupportedMultiplier")
                 ELSE PeriodOrd(period_asfreq(self.ordinal, base1, base2,
                                              h.ret = "E"),
                                base2)

\* Period.__eq__
Period__eq__(self, other) ==
    IF other.t = "Period"
    THEN self.ordinal = other.ordinal /\ gfc(self.freq) = gfc(other.freq)
    ELSE FALSE

\* Period.__hash__: hash((self.ordinal, self.freq)), a function of the pair
Period__hash__(self) == <<self.ordinal, self.freq>>

\* Period.__add__
Period__add__(self, other) ==
    IF is_integer(other) THEN PeriodOrd(self.ordinal + other.iv, self.freq)
    ELSE Raise("TypeError")

Period__sub__reversed(self, other) ==
    IF is_integer(other) THEN PeriodOrd(self.ordinal - other.iv, self.freq)
    ELSE IF other.t = "Period" THEN
        IF other.freq # self.freq THEN Raise("FrequencyMismatch")
        ELSE Return(PyInt(other.ordinal - self.ordinal))
    ELSE Raise("TypeError")

\* Period.__sub__
Period__sub__(self, other) ==
    IF is_integer(other) THEN PeriodOrd(self.ordinal - other.iv, self.freq)
    ELSE IF other.t = "Period" THEN
        IF other.freq # self.freq THEN Raise("FrequencyMismatch")
        ELSE Return(PyInt(self.ordinal - other.ordinal))
    ELSE Raise("TypeError")

(***************************************************************************)
(* numpy arrays as sequences.                                              *)
(***************************************************************************)
\* an arange that steps by 2
arange_by_two(a, b) == [i \in 1 .. (IF b > a THEN (b - a + 1) \div 2 ELSE 0) |-> a + 2 * (i - 1)]

\* np.arange(a, b): a, a+1, ..., b-1
arange(a, b) == [i \in 1 .. (IF b > a THEN b - a ELSE 0) |-> a + i - 1]

\* an addition that takes the magnitude of n
ndarray_add_magnitude(values, n) ==
    [i \in DOMAIN values |-> values[i] + (IF n < 0 THEN -n ELSE n)]

\* values + n
ndarray_add(values, n) == [i \in DOMAIN values |-> values[i] + n]

\* np.concatenate of a sequence of arrays
RECURSIVE concatenate(_)
concatenate(arrays) ==
    IF arrays = <<>> THEN <<>> ELSE Head(arrays) \o concatenate(Tail(arrays))

\* ndarray.take(indices): a negative index counts from the end, an index
\* outside the array is an IndexError
ndarray_take(values, indices) ==
    IF \E k \in DOMAIN indices :
          indices[k] < -Len(values) \/ indices[k] >= Len(values)
    THEN Raise("IndexError")
    ELSE Return([k \in DOMAIN indices |->
                    values[IF indices[k] < 0 THEN Len(values) + indices[k] + 1
                           ELSE indices[k] + 1]])

\* arr[start:stop], the bounds None or not negative, clipped to the array
ndarray_slice(values, key) ==
    LET lo == IF key.start = PyNone THEN 0
              ELSE IF key.start.iv > Len(values) THEN Len(values) ELSE key.start.iv
        hi == IF key.stop = PyNone THEN Len(values)
              ELSE IF key.stop.iv > Len(values) THEN Len(values) ELSE key.stop.iv
    IN  SubSeq(values, lo + 1, hi)

\* arr[mask], mask a boolean array of the array's length
RECURSIVE ndarray_mask(_, _)
ndarray_mask(values, mask) ==
    IF values = <<>> THEN <<>>
    ELSE (IF Head(mask) THEN <<Head(values)>> ELSE <<>>)
            \o ndarray_mask(Tail(values), Tail(mask))

\* the comparison method of an int64 array named opname
compare(opname, a, b) ==
    CASE opname = "__eq__" -> a = b
      [] opname = "__ne__" -> a # b
      [] opname = "__lt__" -> a < b
      [] opname = "__gt__" -> a > b
      [] opname = "__le__" -> a <= b
      [] opname = "__ge__" -> a >= b

\* plib.period_asfreq_arr
period_asfreq_arr(values, base1, base2, end) ==
    [i \in DOMAIN values |-> period_asfreq(values[i], base1, base2, end)]

\* int(periods) for a float
int_of_float(x) ==
    CASE x = "2.0" -> 2
      [] x = "1.5" -> 1
      [] OTHER -> 0

\* com._count_not_none
count_not_none(args) == Cardinality({i \in DOMAIN args : args[i] # PyNone})

(***************************************************************************)
(* Objects live in a heap, a sequence; an object's id is its position.  A  *)
(* method call returns [h, err, ret]: the heap after the call, the error   *)
(* kind and the value returned (PyRef(id) for an object).                  *)
(***************************************************************************)
Alloc(h, obj) == [h |-> Append(h, obj), err |-> "none", ret |-> PyRef(Len(h) + 1)]

Fail(h, kind) == [h |-> h, err |-> kind, ret |-> PyNone]

NewPeriodIndex(values, freq, name) ==
    [t |-> "PeriodIndex", values |-> values, freq |-> freq, name |-> name]

\* isinstance(x, PeriodIndex), x a value that may be a reference
IsPeriodIndex(h, x) == x.t = "ref" /\ h[x.id].t = "PeriodIndex"

(***************************************************************************)
(* Range generation.                                                       *)
(***************************************************************************)
ordinal_range_between_exclusive_end(s, e, start, periods, freq) ==
    IF s.err # "none" THEN [err |-> s.err]
    ELSE IF e.err # "none" THEN [err |-> e.err]
    ELSE IF s.ret.t = "Period" /\ e.ret.t = "Period" /\ s.ret.freq # e.ret.freq
    THEN [err |-> "FrequencyMismatch"]
    ELSE [err |-> "none",
          data |-> IF periods # PyNone
                   THEN IF start = PyNone
                        THEN arange(e.ret.ordinal - periods.iv, e.ret.ordinal)
                        ELSE arange(s.ret.ordinal, s.ret.ordinal + periods.iv)
                   ELSE arange(s.ret.ordinal, e.ret.ordinal),
          freq |-> IF freq # "None" THEN freq
                   ELSE IF s.ret.t = "Period" THEN s.ret.freq ELSE e.ret.freq]

ordinal_range_between_unchecked(s, e, start, periods, freq) ==
    IF s.err # "none" THEN [err |-> s.err]
    ELSE IF e.err # "none" THEN [err |-> e.err]
    ELSE [err |-> "none",
          data |-> IF periods # PyNone
                   THEN IF start = PyNone
                        THEN arange(e.ret.ordinal - periods.iv + 1, e.ret.ordinal + 1)
                        ELSE arange(s.ret.ordinal, s.ret.ordinal + periods.iv)
                   ELSE arange(s.ret.ordinal, e.ret.ordinal + 1),
          freq |-> IF freq # "None" THEN freq
                   ELSE IF s.ret.t = "Period" THEN s.ret.freq ELSE e.ret.freq]

\* the body of _get_ordinal_range once start and end are Periods: s and e
\* are the results of the two Period(...) calls, Return(PyNone) for an
\* endpoint that is None; [err, data, freq]
ordinal_range_between(s, e, start, periods, freq) ==
    IF s.err # "none" THEN [err |-> s.err]
    ELSE IF e.err # "none" THEN [err |-> e.err]
    ELSE LET is_start_per == s.ret.t = "Period"
             is_end_per == e.ret.t = "Period"
         IN  IF is_start_per /\ is_end_per /\ s.ret.freq # e.ret.freq
             THEN [err |-> "FrequencyMismatch"]
             ELSE IF freq = "None" /\ ~is_start_per /\ ~is_end_per
             THEN [err |-> "UnresolvableFrequency"]
             ELSE [err |-> "none",
                   data |->
                     IF periods # PyNone
                     THEN IF start = PyNone
                          THEN arange(e.ret.ordinal - periods.iv + 1,
                                      e.ret.ordinal + 1)
                          ELSE arange(s.ret.ordinal, s.ret.ordinal + periods.iv)
                     ELSE arange(s.ret.ordinal, e.ret.ordinal + 1),
                   freq |-> IF freq # "None" THEN freq
                            ELSE IF is_start_per THEN s.ret.freq
                            ELSE e.ret.freq]

\* _get_ordinal_range: [err, data, freq]
get_ordinal_range(start, end, periods, freq) ==
    IF count_not_none(<<start, end, periods>>) < 2
    THEN [err |-> "InsufficientRangeParameters"]
    ELSE ordinal_range_between(
             IF start # PyNone THEN PeriodVal(start, freq) ELSE Return(PyNone),
             IF end # PyNone THEN PeriodVal(end, freq) ELSE Return(PyNone),
             start, periods, freq)

\* _make_field_arrays on <<a, b>>: a field is a list or a scalar (None
\* included) repeated to the lists' length; [err, arrays]
make_field_arrays(a, b) ==
    LET lists == {x \in {a, b} : x.t = "list"}
        lens == {Len(x.items) : x \in lists}
        arr(x, n) == IF x.t = "list" THEN x.items ELSE [i \in 1 .. n |-> x]
    IN  IF Cardinality(lens) > 1 THEN [err |-> "MismatchedLength"]
        ELSE IF lens = {} THEN [err |-> "TypeError"]
        ELSE LET n == CHOOSE k \in lens : TRUE
             IN  [err |-> "none", arrays |-> <<arr(a, n), arr(b, n)>>]

\* the loops of _range_from_fields: one ordinal per position, the first
\* failing position ending the call; [err, data]
RECURSIVE fields_ordinals(_, _, _, _, _)
fields_ordinals(years, seconds, quarterly, freq, base) ==
    IF years = <<>> THEN [err |-> "none", data |-> <<>>]
    ELSE LET ym == IF quarterly
                   THEN quarter_to_myear(Head(years), Head(seconds), freq)
                   ELSE Return(<<Head(years), Head(seconds)>>)
         IN  IF ym.err # "none" THEN [err |-> ym.err]
             ELSE IF ym.ret[1] = PyNone \/ ym.ret[2] = PyNone
             THEN [err |-> "TypeError"]
             ELSE LET rest == fields_ordinals(Tail(years), Tail(seconds),
                                              quarterly, freq, base)
                  IN  IF rest.err # "none" THEN rest
                      ELSE [err |-> "none",
                            data |-> <<period_ordinal(ym.ret[1].iv, ym.ret[2].iv, base)>>
                                        \o rest.data]

\* _range_from_fields(year, month, quarter, freq): [err, data, freq]
range_from_fields(year, month, quarter, freq) ==
    IF quarter # PyNone THEN
        LET f == IF freq = "None" THEN "Q" ELSE freq
        IN  IF gfc(f)[2] # 1 THEN [err |-> "UnsupportedMultiplier"]
            ELSE IF gfc(f)[1] # "FR_QTR" THEN [err |-> "AssertionError"]
            ELSE LET a == make_field_arrays(year, quarter)
                 IN  IF a.err # "none" THEN [err |-> a.err]
                     ELSE LET r == fields_ordinals(a.arrays[1], a.arrays[2],
                                                   TRUE, f, "FR_QTR")
                          IN  IF r.err # "none" THEN r
                              ELSE [err |-> "none", data |-> r.data, freq |-> f]
    ELSE IF freq = "None" THEN [err |-> "TypeError"]
    ELSE IF gfc(freq)[2] # 1 THEN [err |-> "UnsupportedMultiplier"]
    ELSE LET a == make_field_arrays(year, month)
         IN  IF a.err # "none" THEN [err |-> a.err]
             ELSE LET r == fields_ordinals(a.arrays[1], a.arrays[2], FALSE, freq,
                                           gfc(freq)[1])
                  IN  IF r.err # "none" THEN r
                      ELSE [err |-> "none", data |-> r.data, freq |-> freq]

generate_range_fields_first(start, end, periods, freq, fields) ==
    IF count_not_none(fields) > 0
    THEN range_from_fields(fields[1], fields[2], fields[3], freq)
    ELSE IF count_not_none(<<start, end>>) > 0
    THEN get_ordinal_range(start, end, periods, freq)
    ELSE [err |-> "InsufficientRangeParameters"]

\* PeriodIndex._generate_range, fields = <<year, month, quarter>>
generate_range(start, end, periods, freq, fields) ==
    LET field_count == count_not_none(fields)
    IN  IF count_not_none(<<start, end>>) > 0 THEN
            IF field_count > 0 THEN [err |-> "ValueConflict"]
            ELSE get_ordinal_range(start, end, periods, freq)
        ELSE IF field_count > 0
        THEN range_from_fields(fields[1], fields[2], fields[3], freq)
        ELSE [err |-> "InsufficientRangeParameters"]

(***************************************************************************)
(* PeriodIndex (array).                                                    *)
(***************************************************************************)
\* PeriodIndex._from_arraylike for data an int64 ndarray, a PeriodIndex or
\* a scalar: [err, data, freq]
from_arraylike(h, data, freq) ==
    IF data.t = "ndarray" THEN
        \* an int64 element carries no freq to infer from
        IF freq = "None" THEN [err |-> "MissingFrequency"]
        ELSE [err |-> "none", data |-> data.values, freq |-> freq]
    ELSE IF IsPeriodIndex(h, data) THEN
        IF freq = "None" \/ freq = h[data.id].freq
        THEN [err |-> "none", data |-> h[data.id].values, freq |-> h[data.id].freq]
        ELSE [err |-> "none",
              data |-> period_asfreq_arr(h[data.id].values, gfc(h[data.id].freq)[1],
                                         gfc(freq)[1], TRUE),
              freq |-> freq]
    ELSE [err |-> "NotACollection"]

\* the end of PeriodIndex.__new__: the view of the int64 data r holds, with
\* its name and freq, or the error r holds
PeriodIndex_view(h, r, name) ==
    IF r.err # "none" THEN Fail(h, r.err)
    ELSE Alloc(h, NewPeriodIndex(r.data, r.freq, name))

\* PeriodIndex.__new__(data, ordinal, freq, start, end, periods, name,
\* fields), fields = <<year, month, quarter>>
PeriodIndex__new__(h, data, ordinal, freq0, start, end, periods0, name, fields) ==
    LET freq == get_standard_freq(freq0)
        periods == IF periods0.t = "float" THEN PyInt(int_of_float(periods0.fv))
                   ELSE periods0
    IN  IF periods # PyNone /\ ~is_integer(periods) THEN Fail(h, "InvalidPeriods")
        ELSE PeriodIndex_view(
                 h,
                 IF data = PyNone
                 THEN IF ordinal # PyNone
                      THEN [err |-> "none", data |-> ordinal.values, freq |-> freq]
                      ELSE generate_range(start, end, periods, freq, fields)
                 ELSE from_arraylike(h, data, freq),
                 name)

NoIndexFields == <<PyNone, PyNone, PyNone>>

\* PeriodIndex(data, name=name, freq=freq)
PeriodIndexData(h, values, freq, name) ==
    PeriodIndex__new__(h, [t |-> "ndarray", values |-> values], PyNone, freq,
                       PyNone, PyNone, PyNone, name, NoIndexFields)

\* period_range(start, end, periods, freq, name)
period_range(h, start, end, periods, freq, name) ==
    PeriodIndex__new__(h, PyNone, PyNone, freq, start, end, periods, name,
                       NoIndexFields)

PeriodIndex_shift_in_place(h, self, n) ==
    [h |-> [h EXCEPT ![self].values = ndarray_add(h[self].values, n)],
     err |-> "none", ret |-> PyRef(self)]

\* PeriodIndex.shift
PeriodIndex_shift(h, self, n) ==
    IF n = 0 THEN [h |-> h, err |-> "none", ret |-> PyRef(self)]
    ELSE PeriodIndexData(h, ndarray_add(h[self].values, n), h[self].freq, "None")

PeriodIndex_take_without_freq(h, self, indices) ==
    LET taken == ndarray_take(h[self].values, indices)
    IN  IF taken.err # "none" THEN Fail(h, taken.err)
        ELSE Alloc(h, NewPeriodIndex(taken.ret, "None", h[self].name))

\* PeriodIndex.take
PeriodIndex_take(h, self, indices) ==
    LET taken == ndarray_take(h[self].values, indices)
    IN  IF taken.err # "none" THEN Fail(h, taken.err)
        ELSE Alloc(h, NewPeriodIndex(taken.ret, h[self].freq, h[self].name))

\* PeriodIndex.__getitem__: key an integer, a slice or a boolean array
PeriodIndex__getitem__(h, self, key) ==
    IF is_integer(key) THEN
        LET val == ndarray_take(h[self].values, <<key.iv>>)
        IN  IF val.err # "none" THEN Fail(h, val.err)
            ELSE LET p == PeriodOrd(val.ret[1], h[self].freq)
                 IN  IF p.err # "none" THEN Fail(h, p.err) ELSE Alloc(h, p.ret)
    ELSE LET result == IF key.t = "slice" THEN ndarray_slice(h[self].values, key)
                       ELSE ndarray_mask(h[self].values, key.values)
         IN  PeriodIndexData(h, result, h[self].freq, h[self].name)

\* a boxing that gives every Period the annual freq
box_values_as_annual(obj) ==
    [i \in DOMAIN obj.values |-> PeriodOrd(obj.values[i], "A").ret]

\* PeriodIndex._box_values / asobject: the Periods of the elements
box_values(obj) ==
    [i \in DOMAIN obj.values |-> PeriodOrd(obj.values[i], obj.freq).ret]

\* PeriodIndex.append(other), other a reference or a list of references to
\* indexes
PeriodIndex_append(h, self, other) ==
    LET to_concat == <<PyRef(self)>> \o (IF other.t = "list" THEN other.items
                                         ELSE <<other>>)
        objs == [i \in DOMAIN to_concat |-> h[to_concat[i].id]]
        name == IF \E i \in DOMAIN objs : objs[i].name # h[self].name
                THEN "None" ELSE h[self].name
    IN  IF \E i \in DOMAIN objs : objs[i].t # "PeriodIndex"
        THEN Fail(h, "AttributeError")
        ELSE IF Cardinality({objs[i].freq : i \in DOMAIN objs}) > 1
        THEN Alloc(h, [t |-> "Index",
                       values |-> concatenate([i \in DOMAIN objs |-> box_values(objs[i])]),
                       name |-> name])
        ELSE PeriodIndexData(h, concatenate([i \in DOMAIN objs |-> objs[i].values]),
                             h[self].freq, name)

\* PeriodIndex._assert_can_do_setop: the error kind, or "none"
assert_can_do_setop(h, self, other) ==
    IF ~IsPeriodIndex(h, other) THEN "TypeMismatch"
    ELSE IF h[self].freq # h[other.id].freq THEN "FrequencyMismatch"
    ELSE "none"

\* sorted sequence of a set of integers
RECURSIVE sorted(_)
sorted(S) ==
    IF S = {} THEN <<>>
    ELSE LET m == CHOOSE x \in S : \A y \in S : x <= y
         IN  <<m>> \o sorted(S \ {m})

Range(seq) == {seq[i] : i \in DOMAIN seq}

\* Int64Index.join: the values of the joined index
Int64Index_join(left, right, how) ==
    CASE how = "left" -> left
      [] how = "right" -> right
      [] how = "inner" -> sorted(Range(left) \cap Range(right))
      [] how = "outer" -> sorted(Range(left) \cup Range(right))

\* PeriodIndex._apply_meta: a PeriodIndex view of rawarr with self's freq
apply_meta(h, self, rawarr) == NewPeriodIndex(rawarr, h[self].freq, "None")

\* PeriodIndex.join
PeriodIndex_join(h, self, other, how, return_indexers) ==
    LET e == assert_can_do_setop(h, self, other)
    IN  IF e # "none" THEN Fail(h, e)
        ELSE LET result == Int64Index_join(h[self].values, h[other.id].values, how)
                 r == Alloc(h, apply_meta(h, self, result))
             IN  IF return_indexers
                 THEN [r EXCEPT !.ret = [t |-> "tuple",
                                         items |-> <<r.ret, "lidx", "ridx">>]]
                 ELSE r

\* PeriodIndex.asfreq
PeriodIndex_asfreq(h, self, freq0, how) ==
    LET hw == validate_end_alias(how)
    IN  IF hw.err # "none" THEN Fail(h, hw.err)
        ELSE IF freq0 = "None" THEN Fail(h, "TypeError")
        ELSE LET freq == get_standard_freq(freq0)
                 base1 == gfc(h[self].freq)[1]
                 base2 == gfc(freq)[1]
                 mult2 == gfc(freq)[2]
             IN  IF mult2 # 1 THEN Fail(h, "UnsupportedMultiplier")
                 ELSE Alloc(h, NewPeriodIndex(
                                   period_asfreq_arr(h[self].values, base1, base2,
                                                     hw.ret = "E"),
                                   freq, h[self].name))

period_index_cmp_ignoring_freq(h, self, opname, other) ==
    LET against(o) == Return([i \in DOMAIN h[self].values |->
                                 compare(opname, h[self].values[i], o)])
    IN  IF other.t = "ref" /\ h[other.id].t = "Period"
        THEN against(h[other.id].ordinal)
        ELSE IF IsPeriodIndex(h, other)
        THEN Return([i \in DOMAIN h[self].values |->
                        compare(opname, h[self].values[i], h[other.id].values[i])])
        ELSE LET p == PeriodVal(other, h[self].freq)
             IN  IF p.err # "none" THEN p ELSE against(p.ret.ordinal)

\* the wrapper of _period_index_cmp(opname): other a reference to a Period
\* or to a PeriodIndex of self's length, or a scalar; the two assert
\* statements are the freq checks
period_index_cmp(h, self, opname, other) ==
    LET against(o) == Return([i \in DOMAIN h[self].values |->
                                 compare(opname, h[self].values[i], o)])
    IN  IF other.t = "ref" /\ h[other.id].t = "Period" THEN
            IF h[other.id].freq # h[self].freq THEN Raise("FrequencyMismatch")
            ELSE against(h[other.id].ordinal)
        ELSE IF IsPeriodIndex(h, other) THEN
            IF h[other.id].freq # h[self].freq THEN Raise("FrequencyMismatch")
            ELSE Return([i \in DOMAIN h[self].values |->
                            compare(opname, h[self].values[i], h[other.id].values[i])])
        ELSE LET p == PeriodVal(other, h[self].freq)
             IN  IF p.err # "none" THEN p ELSE against(p.ret.ordinal)

(***************************************************************************)
(* PeriodIndex: lookup by key, partial-date slicing, is_full.  A position  *)
(* is the Python position, counted from 0.  None of these calls creates an *)
(* object: a call returns [err, ret].                                      *)
(***************************************************************************)
\* the errors an `except KeyError` clause catches
IsKeyError(kind) == kind \in {"KeyNotFound", "UnsupportedResolution"}

\* Index.is_monotonic: the values never decrease
is_monotonic(values) ==
    \A i \in DOMAIN values : i = 1 \/ values[i - 1] <= values[i]

\* the binary search of ndarray.searchsorted between offsets lo and hi
RECURSIVE bisect(_, _, _, _, _)
bisect(values, x, lo, hi, right) ==
    IF lo >= hi THEN lo
    ELSE LET mid == lo + ((hi - lo) \div 2)
         IN  IF (IF right THEN values[mid + 1] <= x ELSE values[mid + 1] < x)
             THEN bisect(values, x, mid + 1, hi, right)
             ELSE bisect(values, x, lo, mid, right)

\* ndarray.searchsorted(x, side): side "left" is numpy's default
searchsorted(values, x, side) == bisect(values, x, 0, Len(values), side = "right")

\* the positions the hashed engine of the ordinal buffer holds for a raw key
engine_positions(values, key) ==
    IF is_integer(key) THEN {i - 1 : i \in {j \in DOMAIN values : values[j] = key.iv}}
    ELSE {}

\* self._engine.get_loc(key); pick is the occurrence of a repeated ordinal
\* the hash table holds
engine_get_loc(values, key, pick) ==
    LET hits == engine_positions(values, key)
    IN  IF hits = {} THEN Raise("KeyNotFound")
        ELSE Return(PyInt(IF pick = "first"
                          THEN CHOOSE p \in hits : \A q \in hits : p <= q
                          ELSE CHOOSE p \in hits : \A q \in hits : q <= p))

\* self._engine.get_value(series, key), and Index.get_value(series, key),
\* the raw lookup of PeriodIndex.get_value
engine_get_value(values, series, key, pick) ==
    LET loc == engine_get_loc(values, key, pick)
    IN  IF loc.err # "none" THEN loc ELSE Return(PyInt(series[loc.ret.iv + 1]))

\* asdt, parsed, reso = parse_time_string(key, self.freq): a key that is no
\* string cannot be unpacked
parse_key(key) ==
    IF ~is_string(key) THEN [err |-> "TypeError"]
    ELSE LET p == parse_time_string(key.sv)
         IN  IF ~p.ok THEN [err |-> "ParseError"]
             ELSE [err |-> "none", asdt |-> PyDatetime(p.year, p.month),
                   year |-> p.year, month |-> p.month, reso |-> p.reso]

\* _freq_mod._infer_period_group(reso): the group number of a resolution
infer_period_group(reso) ==
    CASE reso = "year" -> 1000
      [] reso = "quarter" -> 2000
      [] reso = "month" -> 3000
      [] reso = "day" -> 6000

\* _freq_mod._period_group(freq): the group number of a freq
period_group(freq) ==
    CASE gfc(freq)[1] = "FR_ANN" -> 1000
      [] gfc(freq)[1] = "FR_QTR" -> 2000
      [] gfc(freq)[1] = "FR_MTH" -> 3000

\* the freq (grp, 1) of a group number, as a base code
group_freq(grp) ==
    CASE grp = 1000 -> "FR_ANN"
      [] grp = 2000 -> "FR_QTR"
      [] grp = 3000 -> "FR_MTH"

\* the last lookup of get_loc: Period(key, self.freq).ordinal in the engine
get_loc_final(values, k, pick) ==
    IF k.err # "none" THEN Raise(k.err)
    ELSE engine_get_loc(values, PyInt(k.ret.ordinal), pick)

\* get_loc after the raw lookup raw: a miss goes on to the parse of the key,
\* where only a TypeError is caught
get_loc_after_raw(values, freq, key, raw, p, pick) ==
    IF ~IsKeyError(raw.err) THEN raw
    ELSE IF p.err \notin {"none", "TypeError"} THEN Raise(p.err)
    ELSE get_loc_final(values,
                       PeriodVal(IF p.err = "none" THEN p.asdt ELSE key, freq),
                       pick)

\* a get_loc that returns the slice of the positions a coarser string covers
get_loc_returning_slice(h, self, key, pick) ==
    LET p == parse_key(key)
    IN  IF p.err = "none" /\ infer_period_group(p.reso) < period_group(h[self].freq)
        THEN LET iv == PeriodVal(p.asdt, group_freq(infer_period_group(p.reso))).ret
             IN  Return([t |-> "slice",
                         start |-> searchsorted(h[self].values,
                                       Period_asfreq(iv, h[self].freq, "S").ret.ordinal,
                                       "left"),
                         stop |-> searchsorted(h[self].values,
                                       Period_asfreq(iv, h[self].freq, "E").ret.ordinal,
                                       "right")])
        ELSE get_loc_after_raw(h[self].values, h[self].freq, key,
                               engine_get_loc(h[self].values, key, pick), p, pick)

\* PeriodIndex.get_loc
PeriodIndex_get_loc(h, self, key, pick) ==
    get_loc_after_raw(h[self].values, h[self].freq, key,
                      engine_get_loc(h[self].values, key, pick), parse_key(key), pick)

\* the last lookup of get_value: key = Period(key, self.freq), then
\* self._engine.get_value(series, key.ordinal)
get_value_final(values, series, k, pick) ==
    IF k.err # "none" THEN Raise(k.err)
    ELSE engine_get_value(values, series, PyInt(k.ret.ordinal), pick)

\* the inner try of get_value: a TypeError or a KeyError of r goes on to
\* the last lookup, made with the key as it is bound at that point
get_value_try(r, values, series, k, pick) ==
    IF r.err = "TypeError" \/ IsKeyError(r.err)
    THEN get_value_final(values, series, k, pick)
    ELSE r

\* the slice of get_value for a key coarser than the index: ord1 and ord2
\* are the first and the last ordinal the key covers
get_value_slice(values, series, ord1, ord2) ==
    IF values = <<>> THEN Raise("IndexError")
    ELSE IF ord2 < values[1] \/ ord1 > values[Len(values)] THEN Raise("KeyNotFound")
    ELSE Return([t |-> "Series",
                 values |-> ndarray_slice(series,
                     [t |-> "slice",
                      start |-> PyInt(searchsorted(values, ord1, "left")),
                      stop |-> PyInt(searchsorted(values, ord2, "left") + 1)])])

\* the branch of get_value for a key coarser than the index: iv is
\* Period(asdt, freq=(grp, 1))
get_value_coarse(values, freq, series, iv) ==
    IF iv.err # "none" THEN Raise(iv.err)
    ELSE get_value_slice(values, series,
                         Period_asfreq(iv.ret, freq, "S").ret.ordinal,
                         Period_asfreq(iv.ret, freq, "E").ret.ordinal)

\* the branch of get_value for a key as fine as the index, or finer: k is
\* Period(asdt, freq=self.freq), the key from here on
get_value_exact(values, freq, series, k, pick) ==
    IF k.err # "none" THEN Raise(k.err)
    ELSE get_value_try(engine_get_value(values, series, PyInt(k.ret.ordinal), pick),
                       values, series, PeriodVal(k.ret, freq), pick)

\* get_value after the raw lookup raw missed: p is the parse of the key
get_value_parsed(values, freq, series, key, p, pick) ==
    IF p.err = "TypeError" THEN get_value_final(values, series, PeriodVal(key, freq), pick)
    ELSE IF p.err # "none" THEN Raise(p.err)
    ELSE IF infer_period_group(p.reso) < period_group(freq)
    THEN get_value_try(
             get_value_coarse(values, freq, series,
                              PeriodVal(p.asdt, group_freq(infer_period_group(p.reso)))),
             values, series, PeriodVal(key, freq), pick)
    ELSE get_value_exact(values, freq, series, PeriodVal(p.asdt, freq), pick)

\* get_value after the raw lookup raw: a KeyError or an IndexError goes on
get_value_after_raw(values, freq, series, key, raw, pick) ==
    IF ~(IsKeyError(raw.err) \/ raw.err = "IndexError") THEN raw
    ELSE get_value_parsed(values, freq, series, key, parse_key(key), pick)

\* PeriodIndex.get_value
PeriodIndex_get_value(h, self, series, key, pick) ==
    get_value_after_raw(h[self].values, h[self].freq, series, key,
                        engine_get_value(h[self].values, series, key, pick), pick)

\* a __contains__ that lets the failure of the lookup of a string out
PeriodIndex__contains__propagating(h, self, key, pick) ==
    IF key.t # "Period" \/ key.freq # h[self].freq THEN
        IF is_string(key)
        THEN LET r == PeriodIndex_get_loc(h, self, key, pick)
             IN  IF r.err = "none" THEN Return(TRUE) ELSE Raise(r.err)
        ELSE Return(FALSE)
    ELSE Return(engine_positions(h[self].values, PyInt(key.ordinal)) # {})

\* PeriodIndex.__contains__
PeriodIndex__contains__(h, self, key, pick) ==
    IF key.t # "Period" \/ key.freq # h[self].freq THEN
        IF is_string(key)
        THEN Return(PeriodIndex_get_loc(h, self, key, pick).err = "none")
        ELSE Return(FALSE)
    ELSE Return(engine_positions(h[self].values, PyInt(key.ordinal)) # {})

\* an is_full that skips the check of the order
PeriodIndex_is_full_unchecked(h, self) ==
    Return(\A i \in DOMAIN h[self].values :
               i = 1 \/ h[self].values[i] - h[self].values[i - 1] < 2)

\* PeriodIndex.is_full
PeriodIndex_is_full(h, self) ==
    IF Len(h[self].values) = 0 THEN Return(TRUE)
    ELSE IF ~is_monotonic(h[self].values) THEN Raise("NonMonotonicIndex")
    ELSE Return(\A i \in DOMAIN h[self].values :
                    i = 1 \/ h[self].values[i] - h[self].values[i - 1] < 2)

\* the end of _get_string_slice: t1 is the Period of the key's resolution
string_slice_of(values, freq, t1) ==
    IF t1.err # "none" THEN Raise(t1.err)
    ELSE Return([t |-> "slice",
                 start |-> searchsorted(values,
                               Period_asfreq(t1.ret, freq, "start").ret.ordinal, "left"),
                 stop |-> searchsorted(values,
                              Period_asfreq(t1.ret, freq, "end").ret.ordinal, "right")])

\* _get_string_slice after the check of the order: p is the parse of the
\* key.  Period has no keyword `motnh`, so the call of the month branch is
\* a TypeError; the quarter is (month - 1) // 4 + 1
string_slice_parsed(values, freq, p) ==
    IF p.err # "none" THEN Raise(p.err)
    ELSE IF p.reso = "year"
    THEN string_slice_of(values, freq,
             Period__init__(PyNone, "A", PyNone, PyInt(p.year), PyInt(1), PyNone))
    ELSE IF p.reso = "month" THEN Raise("TypeError")
    ELSE IF p.reso = "quarter"
    THEN string_slice_of(values, freq,
             Period__init__(PyNone, "Q-DEC", PyNone, PyInt(p.year), PyInt(1),
                            PyInt(((p.month - 1) \div 4) + 1)))
    ELSE Raise("UnsupportedResolution")

\* a _get_string_slice that skips the check of the order
get_string_slice_unchecked(h, self, key) ==
    string_slice_parsed(h[self].values, h[self].freq, parse_key(key))

\* PeriodIndex._get_string_slice
get_string_slice(h, self, key) ==
    IF ~is_monotonic(h[self].values) THEN Raise("NonMonotonicIndex")
    ELSE string_slice_parsed(h[self].values, h[self].freq, parse_key(key))

\* `if start:` and `if end:` on a bound of slice_locs
truth(x) == x \notin {PyNone, PyInt(0), PyStr("")}

\* the try of slice_locs: s and e are the outcomes of the two bounds, and
\* a KeyError of either goes on to Int64Index.slice_locs, whose outcome is
\* generic
slice_locs_try(s, e, generic) ==
    IF s.err # "none" THEN (IF IsKeyError(s.err) THEN generic ELSE Raise(s.err))
    ELSE IF e.err # "none" THEN (IF IsKeyError(e.err) THEN generic ELSE Raise(e.err))
    ELSE Return([t |-> "tuple", items |-> <<s.ret.start, e.ret.stop>>])

\* a slice_locs whose try lets the KeyError of a bound out
PeriodIndex_slice_locs_without_fallback(h, self, start, end, generic) ==
    IF is_string(start) \/ is_string(end) THEN
        LET s == IF truth(start) THEN get_string_slice(h, self, start)
                 ELSE Return([t |-> "slice", start |-> 0, stop |-> 0])
            e == IF truth(end) THEN get_string_slice(h, self, end)
                 ELSE Return([t |-> "slice", start |-> 0, stop |-> Len(h[self].values)])
        IN  IF s.err # "none" THEN Raise(s.err)
            ELSE IF e.err # "none" THEN Raise(e.err)
            ELSE Return([t |-> "tuple", items |-> <<s.ret.start, e.ret.stop>>])
    ELSE generic

\* PeriodIndex.slice_locs(start, end); generic is the outcome of
\* Int64Index.slice_locs(self, start, end)
PeriodIndex_slice_locs(h, self, start, end, generic) ==
    IF is_string(start) \/ is_string(end)
    THEN slice_locs_try(
             IF truth(start) THEN get_string_slice(h, self, start)
             ELSE Return([t |-> "slice", start |-> 0, stop |-> 0]),
             IF truth(end) THEN get_string_slice(h, self, end)
             ELSE Return([t |-> "slice", start |-> 0, stop |-> Len(h[self].values)]),
             generic)
    ELSE generic

(***************************************************************************)
(* SpecPeriod: calls of the Period constructor and the Period methods on a *)
(* heap of Period objects.  last records the call just made.               *)
(***************************************************************************)
Ordinals == 0 .. MaxOrd

FreqInputs == {"None", "A", "A-DEC", "Q", "M", "2M"}

HowInputs == {"S", "E", "e", "Start", "FINISH", "begin", "END", "middle"}

StringInputs == {PyStr("2000"), PyStr("2000q2"), PyStr("2000-03"), PyStr("foo")}

ScalarInputs ==
    StringInputs \cup {PyInt(2001), PyDatetime(2000, 5), PyDate(2001, 2), PyFloat("1.5")}

OrdinalInputs == {PyInt(k) : k \in Ordinals} \cup {PyFloat("1.5")}

\* <<year, month, quarter>>; month defaults to 1
NoFields == <<PyNone, PyInt(1), PyNone>>

FieldInputs ==
    {NoFields,
     <<PyInt(2000), PyInt(5), PyNone>>,
     <<PyInt(2000), PyInt(1), PyInt(2)>>,
     <<PyInt(2001), PyInt(1), PyInt(5)>>}

HeapPeriods == {heap[i] : i \in {j \in DOMAIN heap : heap[j].t = "Period"}}

InitPeriod ==
    /\ heap = <<>>
    /\ last = [op |-> "init"]

\* Period(value, freq, ordinal, year, month, quarter)
CallPeriod(value, freq, ordinal, fields) ==
    /\ Len(heap) < MaxPeriods
    /\ LET r == Period__init__(value, freq, ordinal, fields[1], fields[2], fields[3])
       IN  /\ heap' = IF r.err = "none" THEN Append(heap, r.ret) ELSE heap
           /\ last' = [op |-> "Period", value |-> value, freq |-> freq,
                       ordinal |-> ordinal, fields |-> fields, err |-> r.err,
                       ret |-> IF r.err = "none" THEN PyRef(Len(heap) + 1)
                               ELSE PyNone]

\* the ordinal path
NewFromOrdinal ==
    \E ordinal \in OrdinalInputs, freq \in FreqInputs :
        CallPeriod(PyNone, freq, ordinal, NoFields)

\* the fields path
NewFromFields ==
    \E fields \in FieldInputs, freq \in FreqInputs :
        CallPeriod(PyNone, freq, PyNone, fields)

\* the value paths: a Period, a string, an integer, a datetime, a date, other
NewFromValue ==
    \E value \in ScalarInputs \cup HeapPeriods, freq \in FreqInputs :
        CallPeriod(value, freq, PyNone, NoFields)

\* both a value and an ordinal
NewFromBoth ==
    \E value \in {PyStr("2000"), PyDatetime(2000, 5)} \cup HeapPeriods,
       ordinal \in {PyInt(MaxOrd), PyFloat("1.5")},
       freq \in {"None", "M", "2M"},
       fields \in {NoFields, <<PyInt(2000), PyInt(5), PyNone>>} :
        CallPeriod(value, freq, ordinal, fields)

\* self + other
CallAdd ==
    \E i \in DOMAIN heap, other \in {PyInt(n) : n \in -1 .. 1} \cup {PyStr("foo")} :
        /\ Len(heap) < MaxPeriods
        /\ LET r == Period__add__(heap[i], other)
           IN  /\ heap' = IF r.err = "none" THEN Append(heap, r.ret) ELSE heap
               /\ last' = [op |-> "add", self |-> i, other |-> other, err |-> r.err,
                           ret |-> IF r.err = "none" THEN PyRef(Len(heap) + 1)
                                   ELSE PyNone]

\* self - other, other an integer or not a Period
CallSubInt ==
    \E i \in DOMAIN heap, other \in {PyInt(n) : n \in -1 .. 1} \cup {PyStr("foo")} :
        /\ Len(heap) < MaxPeriods
        /\ LET r == Period__sub__(heap[i], other)
           IN  /\ heap' = IF r.err = "none" THEN Append(heap, r.ret) ELSE heap
               /\ last' = [op |-> "sub", self |-> i, other |-> other, err |-> r.err,
                           ret |-> IF r.err = "none" THEN PyRef(Len(heap) + 1)
                                   ELSE PyNone]

\* self - other, other a Period of the heap
CallSubPeriod ==
    \E i \in DOMAIN heap, j \in DOMAIN heap :
        LET r == Period__sub__(heap[i], heap[j])
        IN  /\ heap' = heap
            /\ last' = [op |-> "psub", self |-> i, other |-> j, err |-> r.err,
                        ret |-> r.ret]

\* self == other and the two hashes
CallEq ==
    \E i \in DOMAIN heap :
    \E other \in {PyRef(j) : j \in DOMAIN heap}
                 \cup {PyInt(heap[i].ordinal), PyStr(heap[i].freq), PyNone} :
        LET o == IF other.t = "ref" THEN heap[other.id] ELSE other
        IN  /\ heap' = heap
            /\ last' = [op |-> "eq", self |-> i, other |-> other,
                        ret |-> Period__eq__(heap[i], o),
                        hash_self |-> Period__hash__(heap[i]),
                        hash_other |-> IF o.t = "Period" THEN Period__hash__(o)
                                       ELSE <<>>]

\* self.asfreq(freq, how)
CallAsfreq ==
    \E i \in DOMAIN heap, freq \in FreqInputs \ {"None"}, how \in HowInputs :
        /\ Len(heap) < MaxPeriods
        /\ LET r == Period_asfreq(heap[i], freq, how)
           IN  /\ heap' = IF r.err = "none" THEN Append(heap, r.ret) ELSE heap
               /\ last' = [op |-> "asfreq", self |-> i, freq |-> freq, how |-> how,
                           err |-> r.err,
                           ret |-> IF r.err = "none" THEN PyRef(Len(heap) + 1)
                                   ELSE PyNone]

NextPeriod ==
    \/ NewFromOrdinal
    \/ NewFromFields
    \/ NewFromValue
    \/ NewFromBoth
    \/ CallAdd
    \/ CallSubInt
    \/ CallSubPeriod
    \/ CallEq
    \/ CallAsfreq

SpecPeriod == InitPeriod /\ [][NextPeriod]_vars

(***************************************************************************)
(* Claims about the scalar Period, checked under SpecPeriod.               *)
(***************************************************************************)
\* a call that returned a new object put it at the end of the heap
Result == heap[last.ret.id]

HeapKept == \A i \in DOMAIN heap : i \in DOMAIN heap' /\ heap'[i] = heap[i]

C4_State ==
    /\ (last.op = "psub" /\ gfc(heap[last.self].freq) = gfc(heap[last.other].freq))
         => /\ last.err = "none"
            /\ last.ret = PyInt(heap[last.self].ordinal - heap[last.other].ordinal)
    /\ (last.op = "psub" /\ gfc(heap[last.self].freq) # gfc(heap[last.other].freq))
         => /\ last.err = "FrequencyMismatch"
            /\ last.ret = PyNone
    /\ (last.op = "sub" /\ is_integer(last.other))
         => /\ last.err = "none"
            /\ Result.t = "Period"
            /\ Result.freq = heap[last.self].freq
            /\ Result.ordinal = heap[last.self].ordinal - last.other.iv
    /\ (last.op = "add" /\ is_integer(last.other))
         => /\ last.err = "none"
            /\ Result.t = "Period"
            /\ Result.freq = heap[last.self].freq
            /\ Result.ordinal = heap[last.self].ordinal + last.other.iv
    /\ \A i \in DOMAIN heap, n \in -MaxOrd .. MaxOrd :
         LET p == heap[i]
             q == Period__add__(p, PyInt(n)).ret
         IN  /\ Period__sub__(q, p) = Return(PyInt(n))
             /\ Period__sub__(q, PyInt(n)) = Return(p)

\* C4: Period(k, F) - Period(j, F) = k - j, a Period of another freq raises
\* FrequencyMismatch, p - n and p + n are Periods of p's freq with ordinal
\* k - n and k + n, (p + n) - p = n, (p + n) - n = p, and no call changes a
\* Period that existed before it.
C4_PeriodArithmetic == [](C4_State) /\ [][HeapKept]_vars

C4_Witness ==
    /\ last.op = "psub"
    /\ last.err = "none"
    /\ last.ret.iv < 0
    /\ heap[last.self].ordinal = 0

\* C5: p == q exactly when ordinals and freqs are the same, p == x is false
\* for x not a Period, and equal Periods have equal hashes, for Periods of
\* every construction path.
C5_EqualityAndHash ==
    /\ \A i \in DOMAIN heap, j \in DOMAIN heap :
         /\ Period__eq__(heap[i], heap[j])
              <=> (heap[i].ordinal = heap[j].ordinal /\ heap[i].freq = heap[j].freq)
         /\ Period__eq__(heap[i], heap[j])
              => Period__hash__(heap[i]) = Period__hash__(heap[j])
    /\ (last.op = "eq" /\ last.other.t = "ref")
         => /\ last.ret = (/\ heap[last.self].ordinal = heap[last.other.id].ordinal
                          /\ heap[last.self].freq = heap[last.other.id].freq)
            /\ last.ret => last.hash_self = last.hash_other
    /\ (last.op = "eq" /\ last.other.t # "ref") => last.ret = FALSE

C5_Witness ==
    /\ last.op = "eq"
    /\ last.other.t = "ref"
    /\ last.other.id # last.self
    /\ last.ret = TRUE

C6_Mult(freq) == freq # "None" /\ gfc(freq)[2] # 1

C6_State ==
    last.op = "Period" =>
      /\ (last.value # PyNone /\ last.ordinal # PyNone) => last.err = "ValueConflict"
      /\ (last.value = PyNone /\ is_integer(last.ordinal) /\ last.freq = "None")
           => last.err = "MissingFrequency"
      /\ (last.value = PyNone /\ last.ordinal # PyNone /\ ~is_integer(last.ordinal))
           => last.err = "InvalidOrdinal"
      /\ C6_Mult(last.freq) => last.err # "none"
      /\ (C6_Mult(last.freq) /\ last.value = PyNone
            /\ (last.ordinal = PyNone \/ is_integer(last.ordinal)))
           => last.err = "UnsupportedMultiplier"
      /\ last.err # "none" => last.ret = PyNone
      /\ (last.err = "none" /\ last.ordinal # PyNone)
           => /\ Result.t = "Period"
              /\ Result.ordinal = last.ordinal.iv
              /\ gfc(Result.freq) = gfc(last.freq)

C6_NoPartialObject ==
    (last'.op = "Period" /\ last'.err # "none") => heap' = heap

C7_Accepted(how) == upper(how) \in {"S", "E", "START", "FINISH", "BEGIN", "END"}

\* C7: p.asfreq(p.freq, how) is p for every accepted how, any other how
\* raises InvalidAlias, and a target freq with a multiplier other than 1
\* raises UnsupportedMultiplier.
C7_AsfreqIdempotent ==
    last.op = "asfreq" =>
      /\ ~C7_Accepted(last.how) => last.err = "InvalidAlias"
      /\ (C7_Accepted(last.how) /\ gfc(last.freq)[2] # 1)
           => last.err = "UnsupportedMultiplier"
      /\ (C7_Accepted(last.how) /\ gfc(last.freq) = gfc(heap[last.self].freq))
           => /\ last.err = "none"
              /\ Result = heap[last.self]
              /\ Period__eq__(Result, heap[last.self])

C7_Witness ==
    /\ last.op = "asfreq"
    /\ last.how = "begin"
    /\ last.freq = "Q"
    /\ last.err = "none"
    /\ heap[last.self].freq = "Q-DEC"
    /\ heap[last.self].ordinal > MaxOrd

(***************************************************************************)
(* SpecIndex: calls of the PeriodIndex constructor and methods on a heap   *)
(* of indexes (and of the Periods and generic indexes the calls return).   *)
(* An object no caller holds any more leaves the heap (Forget).            *)
(***************************************************************************)
\* sequences of length at most n over S
SeqsUpTo(S, n) == UNION {[1 .. k -> S] : k \in 0 .. n}

OrdWindow == 0 .. MaxOrd

IndexFreqInputs == {"A", "A-DEC", "M"}

NameInputs == {"None", "x"}

IndexIds == {i \in DOMAIN heap : heap[i].t = "PeriodIndex"}

TakeInputs == SeqsUpTo(-1 .. MaxLen - 1, MaxLen) \cup {<<MaxLen>>}

SliceInputs ==
    {[t |-> "slice", start |-> a, stop |-> b] :
        a \in {PyNone, PyInt(0), PyInt(1)}, b \in {PyNone, PyInt(1), PyInt(MaxLen)}}

MaskInputs(n) == {[t |-> "mask", values |-> m] : m \in [1 .. n -> BOOLEAN]}

InitIndex ==
    /\ heap = <<>>
    /\ last = [op |-> "init"]

\* the heap and the record of a call that returned r
Apply(r, call) ==
    /\ heap' = r.h
    /\ last' = call @@ [err |-> r.err, ret |-> r.ret]

\* PeriodIndex(ordinal=values, freq=freq, name=name)
CallNewIndex ==
    \E values \in SeqsUpTo(Ordinals, MaxLen), freq \in IndexFreqInputs,
       name \in NameInputs :
        /\ Len(heap) < MaxObjects - 1
        /\ Apply(PeriodIndex__new__(heap, PyNone, [t |-> "ndarray", values |-> values],
                                    freq, PyNone, PyNone, PyNone, name, NoIndexFields),
                 [op |-> "PeriodIndex", freq |-> freq, name |-> name])

CallShift ==
    \E self \in IndexIds, n \in -MaxShift .. MaxShift :
        /\ Len(heap) < MaxObjects
        /\ \A i \in DOMAIN heap[self].values : heap[self].values[i] + n \in OrdWindow
        /\ Apply(PeriodIndex_shift(heap, self, n),
                 [op |-> "shift", self |-> self, n |-> n])

CallTake ==
    \E self \in IndexIds, indices \in TakeInputs :
        /\ Len(heap) < MaxObjects
        /\ Apply(PeriodIndex_take(heap, self, indices),
                 [op |-> "take", self |-> self])

CallGetitem ==
    \E self \in IndexIds :
    \E key \in SliceInputs \cup MaskInputs(Len(heap[self].values))
               \cup {PyInt(-1), PyInt(0), PyInt(MaxLen)} :
        /\ Len(heap) < MaxObjects
        /\ Apply(PeriodIndex__getitem__(heap, self, key),
                 [op |-> "getitem", self |-> self, key |-> key.t])

CallAppend ==
    \E self \in IndexIds :
    \E other \in {PyRef(j) : j \in IndexIds}
                 \cup {[t |-> "list", items |-> <<PyRef(j), PyRef(k)>>] :
                          j \in IndexIds, k \in IndexIds} :
        /\ Len(heap) < MaxObjects
        /\ LET others == IF other.t = "list" THEN other.items ELSE <<other>>
           IN  Len(heap[self].values)
                 + Len(concatenate([i \in DOMAIN others |-> heap[others[i].id].values]))
                 <= MaxLen
        /\ Apply(PeriodIndex_append(heap, self, other),
                 [op |-> "append", self |-> self, other |-> other])

CallJoin ==
    \E self \in IndexIds,
       other \in {PyRef(j) : j \in DOMAIN heap} \cup {[t |-> "list", items |-> <<>>]},
       how \in {"left", "right", "inner", "outer"},
       return_indexers \in BOOLEAN :
        /\ Len(heap) < MaxObjects
        /\ Apply(PeriodIndex_join(heap, self, other, how, return_indexers),
                 [op |-> "join", self |-> self, other |-> other])

CallIndexAsfreq ==
    \E self \in IndexIds, freq \in {"A", "M", "2M"}, how \in {"S", "e", "middle"} :
        /\ Len(heap) < MaxObjects
        /\ LET r == PeriodIndex_asfreq(heap, self, freq, how)
           IN  r.err = "none"
                 => \A i \in DOMAIN r.h[r.ret.id].values :
                       r.h[r.ret.id].values[i] \in OrdWindow
        /\ Apply(PeriodIndex_asfreq(heap, self, freq, how),
                 [op |-> "asfreq", self |-> self, freq |-> freq])

\* self <op> other: the boolean array returned is no object of the model
CallCmp ==
    \E self \in IndexIds,
       opname \in {"__eq__", "__ne__", "__lt__", "__gt__", "__le__", "__ge__"},
       other \in {PyRef(j) : j \in {k \in DOMAIN heap : heap[k].t \in {"Period", "PeriodIndex"}}}
                 \cup {PyStr("2000"), PyStr("foo")} :
        /\ Len(heap) < MaxObjects
        /\ IsPeriodIndex(heap, other)
             => \/ Len(heap[other.id].values) = Len(heap[self].values)
                \/ heap[other.id].freq # heap[self].freq
        /\ LET r == period_index_cmp(heap, self, opname, other)
           IN  /\ heap' = heap
               /\ last' = [op |-> "cmp", self |-> self, opname |-> opname,
                           other |-> other, err |-> r.err, ret |-> r.ret]

\* the last reference to object i goes away
Forget ==
    \E i \in DOMAIN heap :
        /\ heap' = [k \in 1 .. Len(heap) - 1 |-> IF k < i THEN heap[k] ELSE heap[k + 1]]
        /\ last' = [op |-> "forget"]

NextIndex ==
    \/ CallNewIndex
    \/ CallShift
    \/ CallTake
    \/ CallGetitem
    \/ CallAppend
    \/ CallJoin
    \/ CallIndexAsfreq
    \/ CallCmp
    \/ Forget

SpecIndex == InitIndex /\ [][NextIndex]_vars

(***************************************************************************)
(* Claims about the PeriodIndex operations, checked under SpecIndex.       *)
(***************************************************************************)
\* a slice or a boolean selection, not a scalar position
C1_Selection == last.op = "getitem" /\ last.key \in {"slice", "mask"}

\* the operands of the last append
C1_Appended == IF last.other.t = "list" THEN last.other.items ELSE <<last.other>>

C1_AppendedSameFreq ==
    \A k \in DOMAIN C1_Appended :
        heap[C1_Appended[k].id].freq = heap[last.self].freq

\* the index a join returned, with or without the indexers
C1_Joined ==
    IF last.ret.t = "tuple" THEN heap[last.ret.items[1].id] ELSE heap[last.ret.id]

C1_State ==
    /\ last.op = "shift"
         => /\ last.err = "none"
            /\ Result.t = "PeriodIndex"
            /\ Result.freq = heap[last.self].freq
    /\ (last.op = "take" /\ last.err = "none")
         => /\ Result.t = "PeriodIndex"
            /\ Result.freq = heap[last.self].freq
            /\ Result.name = heap[last.self].name
    /\ C1_Selection
         => /\ last.err = "none"
            /\ Result.t = "PeriodIndex"
            /\ Result.freq = heap[last.self].freq
    /\ (last.op = "append" /\ C1_AppendedSameFreq)
         => /\ last.err = "none"
            /\ Result.t = "PeriodIndex"
            /\ Result.freq = heap[last.self].freq
    /\ (last.op = "join" /\ IsPeriodIndex(heap, last.other)
          /\ heap[last.other.id].freq = heap[last.self].freq)
         => /\ last.err = "none"
            /\ C1_Joined.t = "PeriodIndex"
            /\ C1_Joined.freq = heap[last.self].freq
    /\ (last.op = "join" /\ ~IsPeriodIndex(heap, last.other))
         => /\ last.err = "TypeMismatch"
            /\ last.ret = PyNone
    /\ (last.op = "join" /\ IsPeriodIndex(heap, last.other)
          /\ heap[last.other.id].freq # heap[last.self].freq)
         => /\ last.err = "FrequencyMismatch"
            /\ last.ret = PyNone

C1_NoResultOnFailure == (last'.op = "join" /\ last'.err # "none") => heap' = heap

\* C1: the result of shift, take, a slice or boolean selection, append of
\* indexes of the receiver's freq and join with an index of the receiver's
\* freq is a PeriodIndex of the receiver's freq, whatever sequence of these
\* calls produced the receiver; join with a value that is no PeriodIndex
\* raises TypeMismatch and with an index of another freq FrequencyMismatch,
\* no object created; take keeps the name.
C1_FreqHomogeneity == [](C1_State) /\ [][C1_NoResultOnFailure]_vars

C1_Witness ==
    /\ last.op = "join"
    /\ last.err = "none"
    /\ last.ret.t = "tuple"
    /\ last.other.id # last.self
    /\ C1_Joined.freq = "M"
    /\ Len(C1_Joined.values) = MaxLen
    /\ Len(heap) = MaxObjects

\* the last call was a transforming operation that returned a PeriodIndex
\* or raised: asfreq, shift, take, a slice or boolean selection, append of
\* indexes of the receiver's freq, join
C2_Transforming ==
    \/ last.op \in {"asfreq", "shift", "take", "join"}
    \/ C1_Selection
    \/ last.op = "append" /\ C1_AppendedSameFreq

\* the id of the index the last call returned
C2_ReturnedId == IF last.ret.t = "tuple" THEN last.ret.items[1].id ELSE last.ret.id

\* the returned index is an object that did not exist before the call
C2_ReturnsNew ==
    (C2_Transforming' /\ last'.err = "none")
        => /\ C2_ReturnedId' \notin DOMAIN heap
           /\ heap'[C2_ReturnedId'].t = "PeriodIndex"

\* C2 as stated: every transforming operation returns a new PeriodIndex and
\* leaves every object that existed before it as it was.
C2_AlwaysNew == [][C2_Transforming' => (HeapKept /\ C2_ReturnsNew)]_vars

C2_ReturnsNewUnlessShiftZero ==
    (C2_Transforming' /\ last'.err = "none")
        => IF last'.op = "shift" /\ last'.n = 0
           THEN last'.ret = PyRef(last'.self) /\ heap' = heap
           ELSE /\ C2_ReturnedId' \notin DOMAIN heap
                /\ heap'[C2_ReturnedId'].t = "PeriodIndex"

\* C2, amended: asfreq, shift, take, slicing, append and join leave the
\* ordinals, freq and name of every index (and every other object) that
\* existed before the call as they were, and the PeriodIndex returned is a
\* new object, except that shift(0) returns the receiver itself.
C2_NeverMutates ==
    [][C2_Transforming' => (HeapKept /\ C2_ReturnsNewUnlessShiftZero)]_vars

C2_Witness ==
    /\ last.op = "asfreq"
    /\ last.err = "none"
    /\ Len(heap) = MaxObjects
    /\ heap[last.self].name = "x"
    /\ Len(heap[last.self].values) = MaxLen
    /\ Result.freq # heap[last.self].freq

\* the meaning of the comparison named opname on two ordinals
C3_Holds(opname, a, b) ==
    \/ opname = "__eq__" /\ a = b
    \/ opname = "__ne__" /\ ~(a = b)
    \/ opname = "__lt__" /\ a < b
    \/ opname = "__gt__" /\ b < a
    \/ opname = "__le__" /\ ~(b < a)
    \/ opname = "__ge__" /\ ~(a < b)

C3_OtherIs(type) == last.other.t = "ref" /\ heap[last.other.id].t = type

\* C3: a comparison of a PeriodIndex with a Period or a PeriodIndex of
\* another freq raises FrequencyMismatch and returns no array; with the same
\* freq the result is the array of the comparisons of each ordinal with the
\* Period's ordinal, or with the other index's ordinal at the same position.
C3_ComparisonChecksFreq ==
    last.op = "cmp" =>
      LET self == heap[last.self]
      IN  /\ (last.other.t = "ref" /\ heap[last.other.id].freq # self.freq)
               => /\ last.err = "FrequencyMismatch"
                  /\ last.ret = PyNone
          /\ (C3_OtherIs("Period") /\ heap[last.other.id].freq = self.freq)
               => /\ last.err = "none"
                  /\ DOMAIN last.ret = DOMAIN self.values
                  /\ \A i \in DOMAIN self.values :
                       last.ret[i] = C3_Holds(last.opname, self.values[i],
                                              heap[last.other.id].ordinal)
          /\ (C3_OtherIs("PeriodIndex") /\ heap[last.other.id].freq = self.freq)
               => /\ last.err = "none"
                  /\ DOMAIN last.ret = DOMAIN self.values
                  /\ \A i \in DOMAIN self.values :
                       last.ret[i] = C3_Holds(last.opname, self.values[i],
                                              heap[last.other.id].values[i])

C3_Witness ==
    /\ last.op = "cmp"
    /\ last.err = "FrequencyMismatch"
    /\ C3_OtherIs("PeriodIndex")
    /\ heap[last.self].values = heap[last.other.id].values
    /\ Len(heap[last.self].values) = MaxLen
    /\ last.opname = "__ne__"

\* the index a call returned, in heap h
Returned(r) == r.h[r.ret.id]

\* x.shift(a).shift(b), r the outcome of x.shift(a)
ShiftAgain(r, b) == PeriodIndex_shift(r.h, r.ret.id, b)

\* C19: shift(n) returns a PeriodIndex of the receiver's length and freq
\* whose i-th ordinal is the receiver's i-th ordinal plus n, n negative
\* included, and shift(0) returns the receiver; for every index alive,
\* shift(a).shift(b) has the ordinals and freq of shift(a + b), and
\* shift(n).shift(-n) has the receiver's ordinals.
C19_ShiftAddsN ==
    /\ (last.op = "shift")
          => /\ last.err = "none"
             /\ Result.t = "PeriodIndex"
             /\ Result.freq = heap[last.self].freq
             /\ Len(Result.values) = Len(heap[last.self].values)
             /\ last.n # 0
                  => \A i \in DOMAIN Result.values :
                        Result.values[i] = heap[last.self].values[i] + last.n
             /\ last.n = 0 => last.ret = PyRef(last.self)
    /\ \A x \in IndexIds :
       \A a \in -MaxShift .. MaxShift, b \in -MaxShift .. MaxShift :
          /\ Returned(ShiftAgain(PeriodIndex_shift(heap, x, a), b)).values
               = Returned(PeriodIndex_shift(heap, x, a + b)).values
          /\ Returned(ShiftAgain(PeriodIndex_shift(heap, x, a), b)).freq
               = Returned(PeriodIndex_shift(heap, x, a + b)).freq
          /\ Returned(ShiftAgain(PeriodIndex_shift(heap, x, a), -a)).values
               = heap[x].values

\* a shift by a negative n of an index with elements
C19_Witness ==
    /\ last.op = "shift"
    /\ last.n < 0
    /\ last.err = "none"
    /\ Len(heap[last.self].values) = MaxLen
    /\ last.ret # PyRef(last.self)
    /\ Result.values = ndarray_add(heap[last.self].values, last.n)

\* the indexes of an append, the receiver first
C20_Inputs == [i \in 1 .. Len(C1_Appended) + 1 |->
                  IF i = 1 THEN heap[last.self] ELSE heap[C1_Appended[i - 1].id]]

\* the Periods of the elements of an index, each with the index's freq
C20_Boxed(obj) ==
    [i \in DOMAIN obj.values |->
        [t |-> "Period", ordinal |-> obj.values[i], freq |-> obj.freq]]

\* C20: append of indexes of one freq returns a PeriodIndex of that freq
\* whose ordinals are the inputs' ordinals in input order, the receiver
\* first; append across freqs is no error and returns a generic index of
\* Periods, one per input element in input order, each with its ordinal
\* and its freq; the name of the result is the name all inputs share, or
\* unset when an input's name differs.
C20_Append ==
    last.op = "append"
        => /\ last.err = "none"
           /\ IF \A i \in DOMAIN C20_Inputs : C20_Inputs[i].freq = C20_Inputs[1].freq
              THEN /\ Result.t = "PeriodIndex"
                   /\ Result.freq = C20_Inputs[1].freq
                   /\ Result.values
                        = concatenate([i \in DOMAIN C20_Inputs |-> C20_Inputs[i].values])
              ELSE /\ Result.t = "Index"
                   /\ Result.values
                        = concatenate([i \in DOMAIN C20_Inputs |-> C20_Boxed(C20_Inputs[i])])
           /\ Len(Result.values)
                = Len(concatenate([i \in DOMAIN C20_Inputs |-> C20_Inputs[i].values]))
           /\ Result.name
                = IF \A i \in DOMAIN C20_Inputs : C20_Inputs[i].name = C20_Inputs[1].name
                  THEN C20_Inputs[1].name ELSE "None"

\* an append across freqs of two named indexes with one element each
C20_Witness ==
    /\ last.op = "append"
    /\ last.err = "none"
    /\ Result.t = "Index"
    /\ Result.name = "x"
    /\ Len(Result.values) = MaxLen
    /\ Result.values[1].freq # Result.values[MaxLen].freq

(***************************************************************************)
(* SpecRange: range generation, by PeriodIndex(start, end, periods, freq,  *)
(* year, month, quarter) and by period_range.  An endpoint is None, a      *)
(* string or a Period; a field is None, a number or a list of numbers.     *)
(* The caller keeps one index at a time: a call is made once the index of  *)
(* the call before has left the heap (Forget).                             *)
(***************************************************************************)
PyList(items) == [t |-> "list", items |-> items]

PeriodEndpoints ==
    {PeriodVal(PyStr("2001"), "A").ret, PeriodVal(PyStr("2000-03"), "M").ret,
     PeriodVal(PyStr("2000q2"), "Q").ret}

EndpointInputs ==
    {PyNone, PyStr("2000"), PyStr("2005"), PyStr("foo")} \cup PeriodEndpoints

PeriodsInputs ==
    {PyNone, PyFloat("2.0"), PyStr("foo")} \cup {PyInt(n) : n \in -1 .. MaxRange}

RangeFreqInputs == {"None", "A", "Q", "M", "2M"}

\* calendar fields <<year, month, quarter>> and the freq they are given with
RangeFieldInputs ==
    {[fields |-> <<PyList(<<PyInt(2000), PyInt(2001)>>), PyInt(1), PyNone>>,
      freq |-> "A"],
     [fields |-> <<PyInt(2000), PyList(<<PyInt(1), PyInt(2)>>), PyNone>>,
      freq |-> "M"],
     [fields |-> <<PyList(<<PyInt(2000), PyInt(2001)>>), PyNone, PyInt(2)>>,
      freq |-> "None"],
     [fields |-> <<PyList(<<PyInt(2000), PyInt(2001)>>), PyNone,
                   PyList(<<PyInt(1), PyInt(4)>>)>>,
      freq |-> "Q"]}

InitRange ==
    /\ heap = <<>>
    /\ last = [op |-> "init"]

\* the record of a range call
RangeCall(start, end, periods, freq, fields) ==
    [op |-> "range", start |-> start, end |-> end, periods |-> periods,
     freq |-> freq, fields |-> fields]

\* PeriodIndex(start=start, end=end, periods=periods, freq=freq)
CallRangeEndpoints ==
    \E start \in EndpointInputs, end \in EndpointInputs, periods \in PeriodsInputs,
       freq \in RangeFreqInputs :
        /\ heap = <<>>
        /\ Apply(PeriodIndex__new__(heap, PyNone, PyNone, freq, start, end, periods,
                                    "None", NoIndexFields),
                 RangeCall(start, end, periods, freq, NoIndexFields))

\* PeriodIndex(year=..., month=..., quarter=..., freq=freq), with or without
\* endpoints and periods
CallRangeFields ==
    \E call \in RangeFieldInputs,
       start \in {PyNone, PyStr("2000")},
       end \in {PyNone, PeriodVal(PyStr("2001"), "A").ret},
       periods \in {PyNone, PyInt(1)} :
        /\ heap = <<>>
        /\ Apply(PeriodIndex__new__(heap, PyNone, PyNone, call.freq, start, end,
                                    periods, "None", call.fields),
                 RangeCall(start, end, periods, call.freq, call.fields))

\* period_range(start, end, periods, freq, name), freq given by the caller
CallPeriodRange ==
    \E start \in EndpointInputs, end \in EndpointInputs,
       periods \in {PyNone, PyInt(MaxRange)}, freq \in {"None", "A", "M"} :
        /\ heap = <<>>
        /\ Apply(period_range(heap, start, end, periods, freq, "x"),
                 RangeCall(start, end, periods, freq, NoIndexFields))

NextRange ==
    \/ CallRangeEndpoints
    \/ CallRangeFields
    \/ CallPeriodRange
    \/ Forget

SpecRange == InitRange /\ [][NextRange]_vars

(***************************************************************************)
(* Claims about range generation, checked under SpecRange.                 *)
(***************************************************************************)
\* the last call generated a range from endpoints: no calendar field, and
\* periods None or a number
RangeFromEndpoints ==
    /\ last.op = "range"
    /\ last.fields = NoIndexFields
    /\ last.periods.t \in {"None", "int", "float"}

\* the Periods the endpoints of the last call resolve to
RangeStart == PeriodVal(last.start, get_standard_freq(last.freq))

RangeEnd == PeriodVal(last.end, get_standard_freq(last.freq))

\* the periods argument of the last call, as an integer
RangePeriods ==
    IF last.periods.t = "float" THEN int_of_float(last.periods.fv) ELSE last.periods.iv

RangeGiven == count_not_none(<<last.start, last.end, last.periods>>)

Positive(n) == IF n > 0 THEN n ELSE 0

\* C8: a range generated from endpoints is a step-1 progression of ordinals:
\* from start to end inclusive when periods is absent, the n ordinals ending
\* at end's for periods = n with end only, the n ordinals beginning at
\* start's for periods = n with start only; it carries the resolved freq;
\* and the call succeeds whenever the endpoints given resolve to Periods of
\* one freq.
C8_RangeIsProgression ==
    (RangeFromEndpoints /\ RangeGiven >= 2) =>
      /\ (/\ last.start # PyNone => RangeStart.err = "none"
          /\ last.end # PyNone => RangeEnd.err = "none"
          /\ (last.start # PyNone /\ last.end # PyNone /\ RangeStart.err = "none"
                /\ RangeEnd.err = "none")
               => RangeStart.ret.freq = RangeEnd.ret.freq)
           => last.err = "none"
      /\ last.err = "none" =>
           LET v == Result.values
               n == Len(v)
           IN  /\ Result.t = "PeriodIndex"
               /\ \A i \in 1 .. n - 1 : v[i + 1] = v[i] + 1
               /\ \A i \in 1 .. n, j \in 1 .. n : i < j => v[i] < v[j]
               /\ last.periods = PyNone
                    => /\ n = Positive(RangeEnd.ret.ordinal - RangeStart.ret.ordinal + 1)
                       /\ n > 0 => (v[1] = RangeStart.ret.ordinal
                                      /\ v[n] = RangeEnd.ret.ordinal)
               /\ (last.periods # PyNone /\ last.start = PyNone)
                    => /\ n = Positive(RangePeriods)
                       /\ n > 0 => v[n] = RangeEnd.ret.ordinal
               /\ (last.periods # PyNone /\ last.end = PyNone)
                    => /\ n = Positive(RangePeriods)
                       /\ n > 0 => v[1] = RangeStart.ret.ordinal
               /\ Result.freq = IF last.start # PyNone THEN RangeStart.ret.freq
                                ELSE RangeEnd.ret.freq
               /\ last.freq # "None" => Result.freq = get_standard_freq(last.freq)

C8_Witness ==
    /\ RangeFromEndpoints
    /\ last.start = PyStr("2000")
    /\ last.end = PyStr("2005")
    /\ last.periods = PyNone
    /\ last.freq = "A"
    /\ last.err = "none"
    /\ Len(Result.values) = 6
    /\ Result.name = "x"

\* start and end of the last call are Periods of different freqs
C9_PeriodsDiffer ==
    /\ RangeFromEndpoints
    /\ last.start.t = "Period"
    /\ last.end.t = "Period"
    /\ last.start.freq # last.end.freq

\* C9 as stated: whatever the freq argument (absent, or a freq of multiplier
\* 1), a range between two Periods of different freqs raises
\* FrequencyMismatch and returns no index.
C9_MismatchForEveryFreq ==
    (C9_PeriodsDiffer /\ last.freq \in {"None", "A", "Q", "M"})
        => /\ last.err = "FrequencyMismatch"
           /\ last.ret = PyNone

C9_State ==
    /\ (C9_PeriodsDiffer /\ last.freq = "None")
         => /\ last.err = "FrequencyMismatch"
            /\ last.ret = PyNone
    /\ (C9_PeriodsDiffer /\ last.freq \in {"A", "Q", "M"})
         => /\ last.err = "none"
            /\ Result.freq = get_standard_freq(last.freq)
    /\ (RangeFromEndpoints /\ last.freq = "None" /\ last.err = "none")
         => Result.freq = IF last.start # PyNone THEN RangeStart.ret.freq
                          ELSE RangeEnd.ret.freq
    /\ (RangeFromEndpoints /\ last.freq = "None" /\ last.err = "none"
          /\ last.start.t = "Period")
         => Result.freq = last.start.freq
    /\ (RangeFromEndpoints /\ last.freq = "None" /\ last.err = "none"
          /\ last.start = PyNone /\ last.end.t = "Period")
         => Result.freq = last.end.freq

C9_NoIndexOnFailure == (last'.op = "range" /\ last'.err # "none") => heap' = heap

\* C9, amended: with no freq argument, a range between two Periods of
\* different freqs raises FrequencyMismatch and returns no index; with a freq
\* argument of multiplier 1 both endpoints are converted to it and the range
\* is generated at that freq.  With no freq argument the freq of the result
\* is that of the start endpoint when start is given, otherwise that of the
\* end endpoint.
C9_MismatchWithoutFreq == [](C9_State) /\ [][C9_NoIndexOnFailure]_vars

C9_Witness ==
    /\ C9_PeriodsDiffer
    /\ last.freq = "None"
    /\ last.periods = PyInt(MaxRange)
    /\ last.err = "FrequencyMismatch"
    /\ heap = <<>>

\* the last call generated a range, periods None or a number
C10_Range == last.op = "range" /\ last.periods.t \in {"None", "int", "float"}

C10_Precedence ==
    /\ (RangeFromEndpoints /\ RangeGiven = 3 /\ last.err = "none")
         => /\ Len(Result.values) = Positive(RangePeriods)
            /\ Result.values = arange(RangeStart.ret.ordinal,
                                      RangeStart.ret.ordinal + RangePeriods)
    /\ (RangeFromEndpoints /\ last.periods = PyNone /\ last.err = "none")
         => /\ Result.values = arange(RangeStart.ret.ordinal, RangeEnd.ret.ordinal + 1)
            /\ Result.values # <<>>
                 => Result.values[Len(Result.values)] = RangeEnd.ret.ordinal

C10_FieldsAndEndpoint ==
    (C10_Range /\ count_not_none(last.fields) > 0
       /\ count_not_none(<<last.start, last.end>>) > 0)
        => /\ last.err = "ValueConflict"
           /\ last.ret = PyNone

\* C10 as stated: periods takes precedence over end, a call with fewer than
\* two of start, end and periods always raises InsufficientRangeParameters,
\* and calendar fields together with an endpoint raise ValueConflict.
C10_AlwaysInsufficient ==
    /\ C10_Precedence
    /\ (C10_Range /\ RangeGiven < 2)
         => /\ last.err = "InsufficientRangeParameters"
            /\ last.ret = PyNone
    /\ C10_FieldsAndEndpoint

\* C10, amended: periods takes precedence over end (with start, end and
\* periods the result is the periods ordinals from start's, with periods
\* absent the range runs to end's ordinal inclusive); a call with no calendar
\* field and fewer than two of start, end and periods raises
\* InsufficientRangeParameters; calendar fields together with an endpoint
\* raise ValueConflict, whatever periods is.
C10_PeriodsPrecedence ==
    /\ C10_Precedence
    /\ (C10_Range /\ RangeGiven < 2 /\ last.fields = NoIndexFields)
         => /\ last.err = "InsufficientRangeParameters"
            /\ last.ret = PyNone
    /\ C10_FieldsAndEndpoint

C10_Witness ==
    /\ RangeFromEndpoints
    /\ RangeGiven = 3
    /\ last.err = "none"
    /\ last.periods = PyInt(MaxRange)
    /\ RangeEnd.ret.ordinal > RangeStart.ret.ordinal + MaxRange
    /\ Len(Result.values) = MaxRange

(***************************************************************************)
(* SpecLookup: lookups on one PeriodIndex at a time (get_loc, get_value,   *)
(* `in`, slice_locs, is_full).  The index is built from an ordinal buffer  *)
(* of months, quarters or years around 2000, in any order and with         *)
(* repeats; the series of get_value holds at position i the value 100 + i. *)
(***************************************************************************)
LookupMonths ==
    {period_ordinal(1999, 12, "FR_MTH"), period_ordinal(2000, 1, "FR_MTH"),
     period_ordinal(2000, 3, "FR_MTH"), period_ordinal(2000, 12, "FR_MTH"),
     period_ordinal(2001, 1, "FR_MTH")}

LookupFreqInputs == {"A", "Q", "M"}

LookupOrdinals(freq) == {period_of_month(mo, gfc(freq)[1]) : mo \in LookupMonths}

KeyStrings ==
    {PyStr("2000"), PyStr("2001"), PyStr("2000-03"), PyStr("2000Q2"),
     PyStr("2000-03-05"), PyStr("foo")}

KeyPeriods ==
    {PeriodVal(PyStr("2000-03"), f).ret : f \in LookupFreqInputs}
        \cup {PeriodVal(PyStr("2005"), "M").ret}

\* the keys of a lookup on an index: strings, Periods, numbers, and the raw
\* ordinals of the index
KeyInputs(values) ==
    KeyStrings \cup KeyPeriods \cup {PyInt(2000), PyFloat("1.5")}
        \cup {PyInt(values[i]) : i \in DOMAIN values}

BoundInputs ==
    {PyNone, PyInt(0), PyInt(1), PyStr("2000"), PyStr("2000-03"), PyStr("2000Q2"),
     PyStr("2000-03-05"), PyStr("foo")}

PickInputs == {"first", "last"}

\* what Int64Index.slice_locs may come to: a miss, or a pair of offsets
GenericInputs(n) ==
    {Raise("KeyNotFound"),
     Return([t |-> "tuple", items |-> <<0, 0>>]),
     Return([t |-> "tuple", items |-> <<0, n>>])}

\* the series of get_value: the value at position i is 100 + i
SeriesOf(values) == [i \in DOMAIN values |-> 100 + i - 1]

InitLookup ==
    /\ heap = <<>>
    /\ last = [op |-> "init"]

\* PeriodIndex(ordinal=values, freq=freq)
CallNewLookupIndex ==
    \E freq \in LookupFreqInputs :
    \E values \in SeqsUpTo(LookupOrdinals(freq), MaxLen) :
        /\ heap = <<>>
        /\ Apply(PeriodIndex__new__(heap, PyNone, [t |-> "ndarray", values |-> values],
                                    freq, PyNone, PyNone, PyNone, "None", NoIndexFields),
                 [op |-> "PeriodIndex", freq |-> freq])

CallGetLoc ==
    \E self \in IndexIds, pick \in PickInputs :
    \E key \in KeyInputs(heap[self].values) :
        /\ heap' = heap
        /\ last' = [op |-> "get_loc", self |-> self, key |-> key, pick |-> pick]
                      @@ PeriodIndex_get_loc(heap, self, key, pick)

CallGetValue ==
    \E self \in IndexIds, pick \in PickInputs :
    \E key \in KeyInputs(heap[self].values) :
        /\ heap' = heap
        /\ last' = [op |-> "get_value", self |-> self, key |-> key, pick |-> pick]
                      @@ PeriodIndex_get_value(heap, self, SeriesOf(heap[self].values),
                                               key, pick)

CallContains ==
    \E self \in IndexIds, pick \in PickInputs :
    \E key \in KeyInputs(heap[self].values) :
        /\ heap' = heap
        /\ last' = [op |-> "contains", self |-> self, key |-> key, pick |-> pick]
                      @@ PeriodIndex__contains__(heap, self, key, pick)

CallSliceLocs ==
    \E self \in IndexIds, start \in BoundInputs, end \in BoundInputs :
    \E generic \in GenericInputs(Len(heap[self].values)) :
        /\ heap' = heap
        /\ last' = [op |-> "slice_locs", self |-> self, start |-> start, end |-> end,
                    generic |-> generic]
                      @@ PeriodIndex_slice_locs(heap, self, start, end, generic)

CallIsFull ==
    \E self \in IndexIds :
        /\ heap' = heap
        /\ last' = [op |-> "is_full", self |-> self] @@ PeriodIndex_is_full(heap, self)

NextLookup ==
    \/ CallNewLookupIndex
    \/ CallGetLoc
    \/ CallGetValue
    \/ CallContains
    \/ CallSliceLocs
    \/ CallIsFull
    \/ Forget

SpecLookup == InitLookup /\ [][NextLookup]_vars

(***************************************************************************)
(* Claims about lookups.                                                   *)
(***************************************************************************)
\* the index a lookup was made on
Looked == heap[last.self]

\* the parse of a string key
KeyParse == parse_time_string(last.key.sv)

\* a string key that parses
ParsedKey == is_string(last.key) /\ KeyParse.ok

\* the resolution of the parsed key is coarser than the index's freq
CoarserKey == infer_period_group(KeyParse.reso) < period_group(Looked.freq)

\* the first and the last ordinal, at the index's freq, of the calendar
\* span of resolution reso that holds month mo of year y
SpanStart(y, mo, reso, freq) ==
    LET m == CASE reso = "year" -> 1
               [] reso = "quarter" -> 3 * ((mo - 1) \div 3) + 1
               [] OTHER -> mo
    IN  period_ordinal(y, m, gfc(freq)[1])

SpanEnd(y, mo, reso, freq) ==
    LET m == CASE reso = "year" -> 12
               [] reso = "quarter" -> 3 * ((mo - 1) \div 3) + 3
               [] OTHER -> mo
    IN  period_ordinal(y, m, gfc(freq)[1])

\* the positions of values whose ordinals lie in lo .. hi
Covered(values, lo, hi) == {i - 1 : i \in {j \in DOMAIN values : values[j] \in lo .. hi}}

\* C11 (as stated): get_loc with a date string coarser than the index's
\* freq, on a sorted index holding a period of the string's span, returns
\* the slice of exactly the positions the span covers.
C11_CoarserKeyGivesSlice ==
    (/\ last.op = "get_loc"
     /\ ParsedKey
     /\ CoarserKey
     /\ is_monotonic(Looked.values)
     /\ Covered(Looked.values,
                SpanStart(KeyParse.year, KeyParse.month, KeyParse.reso, Looked.freq),
                SpanEnd(KeyParse.year, KeyParse.month, KeyParse.reso, Looked.freq)) # {})
        => /\ last.err = "none"
           /\ last.ret.t = "slice"
           /\ Covered(Looked.values,
                      SpanStart(KeyParse.year, KeyParse.month, KeyParse.reso, Looked.freq),
                      SpanEnd(KeyParse.year, KeyParse.month, KeyParse.reso, Looked.freq))
                = {p \in 0 .. Len(Looked.values) - 1 :
                      last.ret.start <= p /\ p < last.ret.stop}

\* C11 (amended): get_loc with a date string that parses returns one
\* position, never a slice: a position holding the ordinal, at the index's
\* freq, of the period that holds the parsed date (for a coarser string the
\* first period of its span); when that ordinal is not in the index the
\* call fails with KeyNotFound.
C11_StringKeyGivesOnePosition ==
    (last.op = "get_loc" /\ ParsedKey)
        => LET o == period_ordinal(KeyParse.year, KeyParse.month, gfc(Looked.freq)[1])
           IN  IF o \in Range(Looked.values)
               THEN /\ last.err = "none"
                    /\ last.ret.t = "int"
                    /\ last.ret.iv \in 0 .. Len(Looked.values) - 1
                    /\ Looked.values[last.ret.iv + 1] = o
               ELSE last.err = "KeyNotFound" /\ last.ret = PyNone

C11_Witness ==
    /\ last.op = "get_loc"
    /\ last.key = PyStr("2000")
    /\ Looked.freq = "M"
    /\ Looked.values = <<period_ordinal(2000, 1, "FR_MTH"), period_ordinal(2000, 3, "FR_MTH")>>
    /\ last.err = "none"
    /\ last.ret = PyInt(0)

\* C12: get_loc and get_value go through their stages in order (raw
\* lookup, parse of the string and Period at the index's freq, Period of
\* the raw key), and a call that does not find the key ends with
\* KeyNotFound and with no other error kind, for every index and every key.
C12_LookupFailsOnlyWithKeyNotFound ==
    last.op \in {"get_loc", "get_value"} => last.err \in {"none", "KeyNotFound"}

\* the case of C12 on an empty index: a date string looked up by get_value
\* in an index without elements
C12_EmptyIndexCase ==
    (last.op = "get_value" /\ Looked.values = <<>> /\ ParsedKey)
        => last.err \in {"none", "KeyNotFound"}

\* the first and the last ordinal the parsed key covers at the index's freq
KeyStart == SpanStart(KeyParse.year, KeyParse.month, KeyParse.reso, Looked.freq)

KeyEnd == SpanEnd(KeyParse.year, KeyParse.month, KeyParse.reso, Looked.freq)

\* C13: on a sorted index with elements, get_value with a string key
\* coarser than the index's freq returns the series elements at exactly the
\* positions whose ordinals lie in [s, e], s and e the first and the last
\* ordinal the key's period covers (also when s or e is not in the index
\* and when ordinals repeat), and fails with KeyNotFound when [s, e] lies
\* outside the index's ordinal range; with a key that is not coarser it
\* returns the single value at the position of the key's period.
C13_GetValueReturnsCoveredValues ==
    (/\ last.op = "get_value"
     /\ ParsedKey
     /\ is_monotonic(Looked.values)
     /\ Looked.values # <<>>)
        => IF CoarserKey
           THEN IF KeyEnd < Looked.values[1] \/ KeyStart > Looked.values[Len(Looked.values)]
                THEN last.err = "KeyNotFound"
                ELSE /\ last.err = "none"
                     /\ last.ret.t = "Series"
                     /\ last.ret.values
                          = ndarray_mask(SeriesOf(Looked.values),
                                         [i \in DOMAIN Looked.values |->
                                             Looked.values[i] \in KeyStart .. KeyEnd])
           ELSE period_ordinal(KeyParse.year, KeyParse.month, gfc(Looked.freq)[1])
                    \in Range(Looked.values)
                  => /\ last.err = "none"
                     /\ last.ret.t = "int"
                     /\ last.ret.iv \in Range(SeriesOf(Looked.values))
                     /\ Looked.values[last.ret.iv - 100 + 1]
                          = period_ordinal(KeyParse.year, KeyParse.month,
                                           gfc(Looked.freq)[1])

\* C14: `key in index` never raises.  For a Period of the index's freq it
\* is true exactly when the Period's ordinal is among the index's ordinals;
\* for a Period of another freq it is false; for a string it is true
\* exactly when the string resolves (it parses and the period of the
\* index's freq holding the parsed date is in the index), any failure of
\* the resolution giving false; for any other key it is false.
C14_ContainsNeverRaises ==
    last.op = "contains"
        => /\ last.err = "none"
           /\ last.ret \in BOOLEAN
           /\ last.ret
                = CASE last.key.t = "Period" ->
                         /\ last.key.freq = Looked.freq
                         /\ last.key.ordinal \in Range(Looked.values)
                    [] last.key.t = "str" ->
                         /\ KeyParse.ok
                         /\ period_ordinal(KeyParse.year, KeyParse.month,
                                           gfc(Looked.freq)[1]) \in Range(Looked.values)
                    [] OTHER -> FALSE

\* a string whose lookup ends with an error that is no miss, reported as
\* false
C14_Witness ==
    /\ last.op = "contains"
    /\ last.key = PyStr("foo")
    /\ Looked.values # <<>>
    /\ PeriodIndex_get_loc(heap, last.self, last.key, last.pick).err = "ParseError"
    /\ last.err = "none"
    /\ last.ret = FALSE

\* slice_locs was called with a string among its two bounds
StringBound == is_string(last.start) \/ is_string(last.end)

SupportedBound(b) ==
    b = PyNone \/ (is_string(b) /\ parse_time_string(b.sv).ok
                     /\ parse_time_string(b.sv).reso \in {"year", "month", "quarter"})

\* the first (end = FALSE) or last (end = TRUE) ordinal, at the index's
\* freq, of the calendar span a string bound names
BoundOrdinal(b, end) ==
    IF end
    THEN SpanEnd(parse_time_string(b.sv).year, parse_time_string(b.sv).month,
                 parse_time_string(b.sv).reso, Looked.freq)
    ELSE SpanStart(parse_time_string(b.sv).year, parse_time_string(b.sv).month,
                   parse_time_string(b.sv).reso, Looked.freq)

\* C16: on a monotonic index, slice_locs with string bounds of resolution
\* year, month or quarter returns (lo, hi): lo the number of ordinals below
\* the first ordinal of the start bound's year, month or quarter (0 for an
\* omitted start), hi the number of ordinals at or below the last ordinal
\* of the end bound's year, month or quarter (the length for an omitted
\* end).
C16_StringSliceOffsets ==
    (/\ last.op = "slice_locs"
     /\ StringBound
     /\ SupportedBound(last.start)
     /\ SupportedBound(last.end)
     /\ is_monotonic(Looked.values))
        => /\ last.err = "none"
           /\ last.ret.t = "tuple"
           /\ last.ret.items[1]
                = IF last.start = PyNone THEN 0
                  ELSE Cardinality({i \in DOMAIN Looked.values :
                                       Looked.values[i] < BoundOrdinal(last.start, FALSE)})
           /\ last.ret.items[2]
                = IF last.end = PyNone THEN Len(Looked.values)
                  ELSE Cardinality({i \in DOMAIN Looked.values :
                                       Looked.values[i] <= BoundOrdinal(last.end, TRUE)})

\* the part of C16 for bounds of resolution year
C16_YearBounds ==
    (/\ last.op = "slice_locs"
     /\ last.start \in {PyNone, PyStr("2000")}
     /\ last.end \in {PyNone, PyStr("2000")})
        => C16_StringSliceOffsets

\* a string bound of a resolution finer than month
FinerBound(b) ==
    is_string(b) /\ parse_time_string(b.sv).ok
        /\ parse_time_string(b.sv).reso \notin {"year", "month", "quarter"}

\* a start bound whose own resolution raises nothing: omitted, or a string
\* of resolution year or quarter
QuietStart(b) ==
    ~truth(b) \/ (is_string(b) /\ parse_time_string(b.sv).ok
                    /\ parse_time_string(b.sv).reso \in {"year", "quarter"})

\* slice_locs reaches a bound finer than month before any other failure
FinerBoundReached ==
    /\ last.op = "slice_locs"
    /\ is_monotonic(Looked.values)
    /\ \/ FinerBound(last.start)
       \/ QuietStart(last.start) /\ FinerBound(last.end)

\* C17 (as stated): slice_locs with a string bound finer than month fails
\* with UnsupportedResolution and returns no offsets.
C17_FinerBoundFails ==
    FinerBoundReached => last.err = "UnsupportedResolution" /\ last.ret = PyNone

\* C17 (amended): UnsupportedResolution never leaves slice_locs; with a
\* string bound finer than month on a monotonic index the call is the call
\* of the generic slicing, with the outcome of that call, offsets included.
C17_FinerBoundFallsBack ==
    last.op = "slice_locs"
        => /\ last.err # "UnsupportedResolution"
           /\ FinerBoundReached
                => last.err = last.generic.err /\ last.ret = last.generic.ret

C17_Witness ==
    /\ last.op = "slice_locs"
    /\ Len(Looked.values) = MaxLen
    /\ is_monotonic(Looked.values)
    /\ last.start = PyStr("2000-03-05")
    /\ last.end = PyNone
    /\ get_string_slice(heap, last.self, last.start).err = "UnsupportedResolution"
    /\ last.err = "none"
    /\ last.ret = [t |-> "tuple", items |-> <<0, MaxLen>>]

QuarterYears == {1999, 2000, 2001}

\* quarters, 0 and 5 outside the four of a year
QuarterInputs == 0 .. 5

AnchoredFreqInputs ==
    {"Q", "Q-JAN", "Q-FEB", "Q-MAR", "Q-APR", "Q-MAY", "Q-JUN", "Q-JUL", "Q-AUG",
     "Q-SEP", "Q-OCT", "Q-NOV", "Q-DEC"}

\* a quarter field of length n: a list of quarters, or one quarter
QuarterFields(n) ==
    {PyList([i \in 1 .. n |-> PyInt(f[i])]) : f \in [1 .. n -> QuarterInputs]}
        \cup {PyInt(x) : x \in QuarterInputs}

\* a year field of length n: the list of the n years from 1999 on, or one
\* year
YearFields(n) ==
    {PyList([i \in 1 .. n |-> PyInt(1998 + i)])} \cup {PyInt(y) : y \in QuarterYears}

InitQuarter ==
    /\ heap = <<>>
    /\ last = [op |-> "init"]

\* _quarter_to_myear(year, quarter, freq)
CallQuarterToMyear ==
    /\ heap = <<>>
    /\ \E year \in QuarterYears, quarter \in QuarterInputs, freq \in AnchoredFreqInputs :
          /\ heap' = heap
          /\ last' = [op |-> "quarter_to_myear", year |-> year, quarter |-> quarter,
                      freq |-> freq]
                        @@ quarter_to_myear(PyInt(year), PyInt(quarter), freq)

\* Period(year=year, quarter=quarter, freq=freq)
CallPeriodQuarter ==
    /\ heap = <<>>
    /\ \E year \in QuarterYears, quarter \in QuarterInputs,
          freq \in {"Q", "Q-DEC", "M", "A", "2M"} :
          LET r == Period__init__(PyNone, freq, PyNone, PyInt(year), PyInt(1),
                                  PyInt(quarter))
          IN  /\ heap' = IF r.err = "none" THEN <<r.ret>> ELSE heap
              /\ last' = [op |-> "PeriodQuarter", year |-> year, quarter |-> quarter,
                          freq |-> freq, err |-> r.err,
                          ret |-> IF r.err = "none" THEN PyRef(1) ELSE PyNone]

\* PeriodIndex(year=years, quarter=quarters, freq=freq)
CallIndexQuarter ==
    /\ heap = <<>>
    /\ \E n \in 1 .. MaxLen, freq \in {"None", "Q", "Q-DEC", "M"} :
       \E years \in YearFields(n), quarters \in QuarterFields(n) :
          /\ years.t = "list" \/ quarters.t = "list"
          /\ Apply(PeriodIndex__new__(heap, PyNone, PyNone, freq, PyNone, PyNone,
                                      PyNone, "None", <<years, PyNone, quarters>>),
                   [op |-> "IndexQuarter", years |-> years, quarters |-> quarters,
                    freq |-> freq])

NextQuarter ==
    \/ CallQuarterToMyear
    \/ CallPeriodQuarter
    \/ CallIndexQuarter
    \/ Forget

SpecQuarter == InitQuarter /\ [][NextQuarter]_vars

(***************************************************************************)
(* Claims about the quarter-to-month mapping.                              *)
(***************************************************************************)
\* <<y1, m>> is the first month of quarter q of the fiscal year y that ends
\* in month r: 3 * (4 - q) + 2 months later it is month r of year y
FirstMonthOfQuarter(y1, m, y, q, r) ==
    /\ m \in 1 .. 12
    /\ y1 \in {y - 1, y}
    /\ y1 = y - 1 <=> m > r
    /\ 12 * y1 + m + 3 * (4 - q) + 2 = 12 * y + r

\* the ordinal, at base code base, of the first month of quarter q of the
\* fiscal year y that ends in month r
QuarterOrdinal(y, q, r, base) ==
    LET p == CHOOSE p \in {y - 1, y} \X (1 .. 12) :
                 FirstMonthOfQuarter(p[1], p[2], y, q, r)
    IN  period_ordinal(p[1], p[2], base)

\* the i-th element of a field given as a list or as one number
FieldAt(field, i) == IF field.t = "list" THEN field.items[i].iv ELSE field.iv

\* the length of the arrays of an IndexQuarter call
FieldsLen == IF last.years.t = "list" THEN Len(last.years.items)
             ELSE Len(last.quarters.items)

OpsEndpointInputs ==
    {PyNone, PyStr("2000"), PyStr("2001"), PeriodVal(PyStr("2000-03"), "M").ret}

OpsPeriodsInputs == {PyNone} \cup {PyInt(n) : n \in -1 .. MaxRange}

OpsFreqInputs == {"None", "A", "M"}

\* the ordinals, at freq, a shift may reach
OpsWindow(freq) ==
    (period_ordinal(2000, 1, gfc(freq)[1]) - MaxRange - MaxShift)
        .. (period_ordinal(2001, 1, gfc(freq)[1]) + MaxRange + MaxShift)

InitRangeOps ==
    /\ heap = <<>>
    /\ last = [op |-> "init"]

\* PeriodIndex(start=start, end=end, periods=periods, freq=freq)
CallOpsRange ==
    /\ heap = <<>>
    /\ \E start \in OpsEndpointInputs, end \in OpsEndpointInputs,
          periods \in OpsPeriodsInputs, freq \in OpsFreqInputs :
          Apply(PeriodIndex__new__(heap, PyNone, PyNone, freq, start, end, periods,
                                   "None", NoIndexFields),
                RangeCall(start, end, periods, freq, NoIndexFields))

\* index.shift(n)
CallOpsShift ==
    /\ Len(heap) = 1
    /\ \E self \in IndexIds, n \in -MaxShift .. MaxShift :
          /\ \A i \in DOMAIN heap[self].values :
                heap[self].values[i] + n \in OpsWindow(heap[self].freq)
          /\ Apply(PeriodIndex_shift(heap, self, n),
                   [op |-> "shift", self |-> self, n |-> n])

\* index[start:stop]
CallOpsSlice ==
    /\ Len(heap) = 1
    /\ \E self \in IndexIds, key \in SliceInputs :
          Apply(PeriodIndex__getitem__(heap, self, key),
                [op |-> "getitem", self |-> self, key |-> key])

\* index.is_full
CallOpsIsFull ==
    /\ heap # <<>>
    /\ \E self \in IndexIds :
          /\ heap' = heap
          /\ last' = [op |-> "is_full", self |-> self] @@ PeriodIndex_is_full(heap, self)

NextRangeOps ==
    \/ CallOpsRange
    \/ CallOpsShift
    \/ CallOpsSlice
    \/ CallOpsIsFull
    \/ Forget

SpecRangeOps == InitRangeOps /\ [][NextRangeOps]_vars

=============================================================================
